---- MODULE Spec2Model ----
(***************************************************************************)
(* Entity storage engine: the transactional adapter (src/src/sled.rs),     *)
(* which keeps a data tree and a covering-index tree per entity type, the  *)
(* actor-backed adapter (src/crates/kernel/src/storage), which reaches its *)
(* backend through a channel into one actor thread, and the Todo entity    *)
(* (src/crates/todo/src/lib.rs) stored through them.                       *)
(*                                                                         *)
(* Bytes are modelled as small integers and byte strings as sequences of   *)
(* integers.  Option values are sequences of length 0 (None) or 1 (Some).  *)
(***************************************************************************)
EXTENDS Integers, Sequences, FiniteSets, TLC

VARIABLES
    data,   \* data tree "todos":        key bytes   -> serialized Todo
    index,  \* index tree "index_todos": index bytes -> serialized Summary
    upd,    \* per task: the update call that has read and not yet committed
    last,   \* the call that completed in the last step, with its outcome
    calls,  \* number of calls made so far
    db,     \* actor-backed adapter: the tree of Inner.db, key bytes -> value
    chan,   \* the messages in the channel into the actor, oldest first
    call,   \* per caller: the call it has under way and the reply to it
    cell,   \* the actor's state cell
    registry, \* metrics: operation name -> counters
    lock,   \* who holds the lock of the registry map, besides record
    work,   \* the message the actor thread is executing, and how far it is
    log,    \* the messages the loop has taken step by step, in the order it
            \* took them, each with what its execution came to
    link,   \* the channel into the actor: open, closed (every sender is
            \* dropped) or broken (the receiver is dropped)
    sem,    \* pool: the permits of the semaphore that are available
    permit, \* pool: the tasks inside get that hold a permit
    taken,  \* pool: per task, the checkouts it got from get and still holds
    handed, \* pool: the handle that the last get to return gave its caller
    cache,  \* cache: the map, key -> entry (data, exp)
    clock,  \* cache: the instant Instant::now() gives
    pend,   \* cache: per task, the set or clean that has read the clock and
            \* waits for the lock of the map
    written, \* cache: per key, the set that reached the map last, with the
            \* instant it read, since the last del of the key
    got,    \* cache: the last get, its key and what it returned
    recording, \* registry: per task, the call of record it is in and how far
    tally   \* registry: per name, the calls of record that have returned,
            \* and those of them that found the lock taken

\* what the calls of the adapters leave alone
poolVars == <<sem, permit, taken, handed>>
cacheVars == <<cache, clock, pend, written, got>>
metricVars == <<recording, tally>>
sideVars == <<poolVars, cacheVars, metricVars>>
\* what a call on the registry leaves alone
restVars ==
    <<data, index, upd, last, db, chan, call, cell, work, log, link, poolVars,
      cacheVars>>
mainVars ==
    <<data, index, upd, last, calls, db, chan, call, cell, registry, lock, work,
      log, link>>
kitVars == <<link, sideVars>>

txVars == <<data, index, upd, kitVars>>
actorVars == <<db, chan, call, cell, registry, lock, work, log, kitVars>>
vars ==
    <<data, index, upd, last, calls, db, chan, call, cell, registry, lock, work,
      log, kitVars>>

----------------------------------------------------------------------------
(* Bounds and input domains *)

\* number of calls made on one store
MaxCalls == 3

\* longest input handed to mass
MaxBatch == 2

\* chunk size of mass (1000 in the source, scaled down with MaxBatch so that
\* a batch can be an exact multiple of it)
CHUNK == 2

\* longest input handed to mass when mass is looked at on its own: one entity
\* more than a chunk
MaxLoad == CHUNK + 1

\* largest byte (u8::MAX, 255 in the source)
U8MAX == 2

\* u128::MAX, whose big-endian bytes are all u8::MAX; two bytes stand for the
\* sixteen
MAX == 8

\* largest limit of a query
MaxLimit == 2

Ids == {1, 2}
Texts == {1, 2}
\* timestamps whose reversed values differ in both bytes
Times == 2..3
Tasks == {1, 2}
Callers == {1, 2}

\* capacity of the channel into the actor (128 in the source, scaled down so
\* that the callers of the model can fill it)
CAPACITY == 2

\* length of a serialized identifier (16 in the source)
IDLEN == 2

\* size of the pool (10 in Sled::new, scaled down)
SIZE == 2

\* the tasks that take handles from the pool, and the most checkouts one of
\* them holds at a time
Getters == 1..3
MaxHeld == 2

\* time to live of a cache entry (300 seconds in Sled::new, scaled down), the
\* instants of the clock and the keys of the cache
TTL == 2
MaxTime == 3
Slots == {1, 2}

\* the names that tasks record under directly
Ops == {"insert", "fetch"}

None == <<>>
Some(x) == <<x>>

\* struct Todo { id, text, done, created }
Todos == [id : Ids, text : Texts, done : BOOLEAN, created : Times]

\* struct Patch { text: Option<String>, done: Option<bool> }
Patches == [text : {None} \cup {Some(t) : t \in Texts},
            done : {None} \cup {Some(b) : b \in BOOLEAN}]

\* the batches mass is called with: todos as todo::add makes them, not done,
\* with the first text and the first timestamp
Bulk == {e \in Todos : e.text = 1 /\ e.created = 2 /\ ~e.done}
Batches == UNION {[1..n -> Bulk] : n \in 0..MaxBatch}

\* the inputs of mass when mass is looked at on its own: up to MaxLoad todos,
\* among them todos of one key with different texts
Cargo == {e \in Todos : e.created = 2 /\ ~e.done}
Loads == UNION {[1..n -> Cargo] : n \in 0..MaxLoad}

----------------------------------------------------------------------------
(* Key builder (src/src/entity.rs) *)

\* Key::flag: one byte, 1 for true and 0 for false
flag(value) == <<IF value THEN 1 ELSE 0>>

\* a time component with the bytes of u128::MAX - value in little-endian order
time_little(value) ==
    <<(MAX - value) % (U8MAX + 1), (MAX - value) \div (U8MAX + 1)>>

\* Key::time: the big-endian bytes of u128::MAX - value
time(value) ==
    <<(MAX - value) \div (U8MAX + 1), (MAX - value) % (U8MAX + 1)>>

\* Key::id: the raw bytes of the identifier
id(value) == <<value>>

----------------------------------------------------------------------------
(* impl Entity for Todo (src/crates/todo/src/lib.rs) *)

key(e) == id(e.id)

idx(e) == flag(e.done) \o time(e.created) \o id(e.id)

summary(e) == [id |-> e.id, text |-> e.text]

\* todo::filter: the query for the todos of one status, behind a cursor
filter(done, after, limit) ==
    [prefix |-> flag(done),
     after |-> IF after = None THEN None
               ELSE Some(flag(done) \o time(after[1][1]) \o id(after[1][2])),
     limit |-> limit]

\* the queries made: those of todo::filter, and those with a prefix of an
\* index key and no cursor
Queries ==
    {filter(done, after, limit) :
        done \in BOOLEAN,
        after \in {None} \cup {Some(<<c, n>>) : c \in Times, n \in Ids},
        limit \in 0..MaxLimit}
    \cup UNION {{[prefix |-> SubSeq(idx(e), 1, n), after |-> None,
                  limit |-> limit] :
                    n \in 0..Len(idx(e)), limit \in 0..MaxLimit} : e \in Todos}

\* the transform that todo::change hands to update
change(patch, todo) ==
    [todo EXCEPT !.text = IF patch.text # None THEN patch.text[1] ELSE @,
                 !.done = IF patch.done # None THEN patch.done[1] ELSE @]

----------------------------------------------------------------------------
(* bincode: the fields in declaration order *)

serialize(e) == <<e.id, e.text>> \o flag(e.done) \o <<e.created>>

brief(s) == <<s.id, s.text>>

\* Ok(entity), or Err(Format) when the bytes are no Todo
deserialize(bytes) ==
    IF Len(bytes) = 4 /\ bytes[3] \in {0, 1}
    THEN [tag |-> "Ok",
          val |-> Some([id |-> bytes[1], text |-> bytes[2],
                        done |-> (bytes[3] = 1), created |-> bytes[4]])]
    ELSE [tag |-> "Format", val |-> None]

\* Ok(summary), or Err(Format) when the bytes are no Summary
debrief(bytes) ==
    IF Len(bytes) = 2
    THEN [tag |-> "Ok", val |-> Some([id |-> bytes[1], text |-> bytes[2]])]
    ELSE [tag |-> "Format", val |-> None]

----------------------------------------------------------------------------
(* sled::Tree *)

get(tree, k) == IF k \in DOMAIN tree THEN Some(tree[k]) ELSE None

put(tree, k, v) == [x \in (DOMAIN tree) \cup {k} |-> IF x = k THEN v ELSE tree[x]]

remove(tree, k) == [x \in (DOMAIN tree) \ {k} |-> tree[x]]

Empty == [x \in {} |-> <<>>]

\* outcome of a call on the two trees
Outcome(d, i, tag, val) == [data |-> d, index |-> i, tag |-> tag, val |-> val]

----------------------------------------------------------------------------
(* impl Sled (src/src/sled.rs).  `fault` says whether the backend fails     *)
(* the call; a transaction that fails applies none of its writes.          *)

\* insert with the two writes outside a transaction: a failure after the
\* data write leaves the data entry without its index entry
insert_torn(d, i, entity, fault) ==
    IF fault
    THEN Outcome(put(d, key(entity), serialize(entity)), i, "Store", None)
    ELSE Outcome(put(d, key(entity), serialize(entity)),
                 put(i, idx(entity), brief(summary(entity))),
                 "Ok", None)

\* insert that keeps the entry of a key that is already stored
insert_absent(d, i, entity, fault) ==
    IF fault THEN Outcome(d, i, "Store", None)
    ELSE IF get(d, key(entity)) # None THEN Outcome(d, i, "Ok", None)
    ELSE Outcome(put(d, key(entity), serialize(entity)),
                 put(i, idx(entity), brief(summary(entity))),
                 "Ok", None)

\* Sled::insert: data write and index write in one transaction
insert(d, i, entity, fault) ==
    IF fault
    THEN Outcome(d, i, "Store", None)
    ELSE Outcome(put(d, key(entity), serialize(entity)),
                 put(i, idx(entity), brief(summary(entity))),
                 "Ok", None)

\* Sled::fetch
fetch(d, k, fault) ==
    IF fault THEN [tag |-> "Store", val |-> None]
    ELSE IF get(d, k) = None THEN [tag |-> "Ok", val |-> None]
    ELSE deserialize(get(d, k)[1])

\* update that starts from a default entity when the key is missing
update_read_upsert(d, k, fault) ==
    IF fault THEN [tag |-> "Store", val |-> None]
    ELSE IF get(d, k) = None
         THEN [tag |-> "Ok",
               val |-> Some([id |-> k[1], text |-> 1, done |-> FALSE,
                             created |-> 2])]
    ELSE deserialize(get(d, k)[1])

\* Sled::update, the read in front of the transaction: the entity before
update_read(d, k, fault) ==
    IF fault THEN [tag |-> "Store", val |-> None]
    ELSE IF get(d, k) = None THEN [tag |-> "Missing", val |-> None]
    ELSE deserialize(get(d, k)[1])

\* write transaction that aborts when the stored entity is no longer the
\* one the update read (compare and swap)
update_txn_cas(d, i, k, before, after, fault) ==
    IF fault THEN Outcome(d, i, "Store", None)
    ELSE IF get(d, k) # Some(serialize(before)) THEN Outcome(d, i, "Aborted", None)
    ELSE Outcome(put(d, k, serialize(after)),
                 IF idx(before) # idx(after)
                 THEN put(remove(i, idx(before)), idx(after), brief(summary(after)))
                 ELSE i,
                 "Ok", Some(after))

\* write transaction whose abort reaches the caller as the generic error
update_txn_generic(d, i, k, before, after, fault) ==
    IF fault THEN Outcome(d, i, "Store", None)
    ELSE IF get(d, k) = None THEN Outcome(d, i, "Aborted", None)
    ELSE Outcome(put(d, k, serialize(after)),
                 IF idx(before) # idx(after)
                 THEN put(remove(i, idx(before)), idx(after), brief(summary(after)))
                 ELSE i,
                 "Ok", Some(after))

\* write transaction that rewrites the index entry whether or not the index
\* key changed
update_txn_churn(d, i, k, before, after, fault) ==
    IF fault THEN Outcome(d, i, "Store", None)
    ELSE IF get(d, k) = None THEN Outcome(d, i, "Missing", None)
    ELSE Outcome(put(d, k, serialize(after)),
                 put(remove(i, idx(before)), idx(after), brief(summary(after))),
                 "Ok", Some(after))

\* write transaction without the look at the key
update_txn_blind(d, i, k, before, after, fault) ==
    IF fault THEN Outcome(d, i, "Store", None)
    ELSE Outcome(put(d, k, serialize(after)),
                 IF idx(before) # idx(after)
                 THEN put(remove(i, idx(before)), idx(after), brief(summary(after)))
                 ELSE i,
                 "Ok", Some(after))

\* Sled::update, the write transaction
update_txn(d, i, k, before, after, fault) ==
    IF fault THEN Outcome(d, i, "Store", None)
    ELSE IF get(d, k) = None THEN Outcome(d, i, "Missing", None)
    ELSE LET stale == idx(before)
             fresh == idx(after)
             changed == stale # fresh
         IN  Outcome(put(d, k, serialize(after)),
                     IF changed
                     THEN put(remove(i, stale), fresh, brief(summary(after)))
                     ELSE i,
                     "Ok", Some(after))

\* delete that removes the data entry and forgets the index entry
delete_keep(d, i, k, fault) ==
    IF fault THEN Outcome(d, i, "Store", None)
    ELSE IF get(d, k) = None THEN Outcome(d, i, "Missing", None)
    ELSE Outcome(remove(d, k), i, "Ok", deserialize(get(d, k)[1]).val)

\* Sled::delete: one transaction
delete(d, i, k, fault) ==
    IF fault THEN Outcome(d, i, "Store", None)
    ELSE IF get(d, k) = None THEN Outcome(d, i, "Missing", None)
    ELSE LET read == deserialize(get(d, k)[1])
         IN  IF read.tag # "Ok" THEN Outcome(d, i, "Format", None)
             ELSE Outcome(remove(d, k), remove(i, idx(read.val[1])),
                          "Ok", read.val)

\* Sled::mass, the inserts of one chunk; the transaction of entity number
\* failAt of the batch is the one the backend fails (0: none)
RECURSIVE chunk_insert(_, _, _, _, _)
chunk_insert(d, i, chunk, pos, failAt) ==
    IF chunk = <<>> THEN Outcome(d, i, "Ok", None)
    ELSE LET r == insert(d, i, Head(chunk), pos + 1 = failAt)
         IN  IF r.tag # "Ok" THEN r
             ELSE chunk_insert(r.data, r.index, Tail(chunk), pos + 1, failAt)

\* mass that stops behind its first chunk
mass_loop_once(d, i, iterator, count, failAt) ==
    LET size == IF Len(iterator) < CHUNK THEN Len(iterator) ELSE CHUNK
    IN  chunk_insert(d, i, SubSeq(iterator, 1, size), count, failAt)

\* Sled::mass, the loop over chunks of CHUNK entities
RECURSIVE mass_loop(_, _, _, _, _)
mass_loop(d, i, iterator, count, failAt) ==
    LET size == IF Len(iterator) < CHUNK THEN Len(iterator) ELSE CHUNK
        chunk == SubSeq(iterator, 1, size)
        rest == SubSeq(iterator, size + 1, Len(iterator))
    IN  IF size = 0 THEN Outcome(d, i, "Ok", None)
        ELSE LET r == chunk_insert(d, i, chunk, count, failAt)
             IN  IF r.tag # "Ok" THEN r
                 ELSE IF size < CHUNK THEN r
                 ELSE mass_loop(r.data, r.index, rest, count + size, failAt)

mass(d, i, iterator, failAt) == mass_loop(d, i, iterator, 0, failAt)

\* Sled::update as one call: read, transform, write transaction.
\* fault: "none", "get" (the read fails) or "txn" (the transaction fails)
update(d, i, k, patch, fault) ==
    LET read == update_read(d, k, fault = "get")
    IN  IF read.tag # "Ok" THEN Outcome(d, i, read.tag, None)
        ELSE update_txn(d, i, k, read.val[1], change(patch, read.val[1]),
                        fault = "txn")

----------------------------------------------------------------------------
(* Sled::query: a scan of the index tree in byte order *)

\* byte order of the keys of a tree
RECURSIVE less(_, _)
less(a, b) ==
    IF a = <<>> THEN b # <<>>
    ELSE IF b = <<>> THEN FALSE
    ELSE IF a[1] # b[1] THEN a[1] < b[1]
    ELSE less(Tail(a), Tail(b))

\* the keys of a set in ascending byte order
RECURSIVE ordered(_)
ordered(S) ==
    IF S = {} THEN <<>>
    ELSE LET m == CHOOSE x \in S : \A y \in S \ {x} : less(x, y)
         IN  <<m>> \o ordered(S \ {m})

\* Tree::iter
iter(i) == ordered(DOMAIN i)

\* Tree::range(lower..upper)
range(i, lower, upper) ==
    ordered({k \in DOMAIN i : ~less(k, lower) /\ less(k, upper)})

\* the upper end of the range: the prefix with its last byte incremented,
\* saturating at u8::MAX
upper(prefix) ==
    IF prefix = <<>> THEN <<>>
    ELSE [prefix EXCEPT ![Len(prefix)] = IF @ = U8MAX THEN U8MAX ELSE @ + 1]

\* the loop that skips to the entry behind `after`
RECURSIVE skip(_, _)
skip(keys, after) ==
    IF keys = <<>> THEN <<>>
    ELSE IF Head(keys) = after THEN Tail(keys)
    ELSE skip(Tail(keys), after)

\* Iterator::take
take(keys, n) == SubSeq(keys, 1, IF n < Len(keys) THEN n ELSE Len(keys))

\* the index keys whose values a query yields, in the order it yields them
scan(i, q) ==
    LET all == IF upper(q.prefix) = <<>> THEN iter(i)
               ELSE range(i, q.prefix, upper(q.prefix))
        rest == IF q.after # None THEN skip(all, q.after[1]) ELSE all
    IN  take(rest, q.limit)

\* query that removes what it yields from the index tree
query_drain(d, i, q, fault) ==
    IF fault THEN Outcome(d, i, "Store", None)
    ELSE LET keys == scan(i, q)
         IN  Outcome(d, [k \in DOMAIN i \ {keys[n] : n \in DOMAIN keys} |-> i[k]],
                     "Ok", Some([n \in DOMAIN keys |-> debrief(i[keys[n]])]))

\* Sled::query; fault: the index tree cannot be opened
query(d, i, q, fault) ==
    IF fault THEN Outcome(d, i, "Store", None)
    ELSE LET keys == scan(i, q)
         IN  Outcome(d, i, "Ok",
                     Some([n \in DOMAIN keys |-> debrief(i[keys[n]])]))

----------------------------------------------------------------------------
(* Metric registry (src/crates/kernel/src/metric.rs) *)

\* Metric::new
Metric == [count |-> 0, fail |-> 0]

\* Metric::record: one more failure or one more success
bump(metric, failed) ==
    IF failed THEN [metric EXCEPT !.fail = @ + 1]
    ELSE [metric EXCEPT !.count = @ + 1]

\* Registry::record: try_write on the map; when the lock is taken the sample
\* goes to a Metric of its own and the map stays as it is
record(map, held, name, failed) ==
    IF held = "free"
    THEN put(map, name, bump(IF name \in DOMAIN map THEN map[name] ELSE Metric,
                             failed))
    ELSE map

----------------------------------------------------------------------------
(* Actor (src/crates/kernel/src/storage/actor/handler.rs): what the actor  *)
(* thread does with one message.  Reply values are Option<bytes>.          *)

Reply(tree, tag, val) == [db |-> tree, tag |-> tag, val |-> val]

\* Message::Fetch that answers a missing key with an error
handle_fetch_missing(tree, k, fault) ==
    IF fault THEN Reply(tree, "Store", None)
    ELSE IF get(tree, k) = None THEN Reply(tree, "Missing", None)
    ELSE Reply(tree, "Ok", get(tree, k))

\* Message::Insert
handle_insert(tree, k, v, fault) ==
    IF fault THEN Reply(tree, "Store", None) ELSE Reply(put(tree, k, v), "Ok", None)

\* Message::Fetch
handle_fetch(tree, k, fault) ==
    IF fault THEN Reply(tree, "Store", None) ELSE Reply(tree, "Ok", get(tree, k))

\* a Delete that answers Missing for a key that is not stored
handle_delete_missing(tree, k, fault) ==
    IF fault THEN Reply(tree, "Store", None)
    ELSE IF get(tree, k) = None THEN Reply(tree, "Missing", None)
    ELSE Reply(remove(tree, k), "Ok", get(tree, k))

\* Message::Delete: the removed value, or an empty vector
handle_delete(tree, k, fault) ==
    IF fault THEN Reply(tree, "Store", None)
    ELSE Reply(remove(tree, k), "Ok",
               IF get(tree, k) = None THEN Some(<<>>) ELSE get(tree, k))

\* Message::Update: the value is written whether or not the key is stored
handle_update(tree, k, v, fault) ==
    IF fault THEN Reply(tree, "Store", None)
    ELSE Reply(put(tree, k, v), "Ok", Some(v))

\* Message::Query: the values of the whole tree in key order, but for empty
\* values and values at keys shorter than an identifier
handle_query(tree, fault) ==
    IF fault THEN Reply(tree, "Store", None)
    ELSE LET keys == ordered({k \in DOMAIN tree :
                                 tree[k] # <<>> /\ Len(k) >= IDLEN})
         IN  Reply(tree, "Ok", Some([n \in DOMAIN keys |-> tree[keys[n]]]))

\* Message::Keys: the keys of the whole tree in key order
handle_keys(tree, fault) ==
    IF fault THEN Reply(tree, "Store", None)
    ELSE Reply(tree, "Ok", Some(ordered(DOMAIN tree)))

\* Message::Mass that reports Ok although an insert failed
RECURSIVE handle_mass_quiet(_, _, _)
handle_mass_quiet(tree, entries, failAt) ==
    IF entries = <<>> THEN Reply(tree, "Ok", None)
    ELSE IF failAt = 1 THEN Reply(tree, "Ok", None)
    ELSE handle_mass_quiet(put(tree, entries[1][1], entries[1][2]),
                           Tail(entries), failAt - 1)

\* Message::Mass: the entries are inserted one by one, each on its own; the
\* insert of entry failAt fails (none fails when failAt is 0) and ends the
\* loop, and the answer is then Aborted
RECURSIVE handle_mass(_, _, _)
handle_mass(tree, entries, failAt) ==
    IF entries = <<>> THEN Reply(tree, "Ok", None)
    ELSE IF failAt = 1 THEN Reply(tree, "Aborted", None)
    ELSE handle_mass(put(tree, entries[1][1], entries[1][2]),
                     Tail(entries), failAt - 1)

\* handler::handle for the messages that make one backend call
handle(msg, tree, fault) ==
    CASE msg.op = "insert" -> handle_insert(tree, msg.key, msg.value, fault)
      [] msg.op = "fetch" -> handle_fetch(tree, msg.key, fault)
      [] msg.op = "delete" -> handle_delete(tree, msg.key, fault)
      [] msg.op = "update" -> handle_update(tree, msg.key, msg.value, fault)
      [] msg.op = "query" -> handle_query(tree, fault)
      [] msg.op = "keys" -> handle_keys(tree, fault)

\* handler::handle: what a message can come to, with or without a failure of
\* the backend; of a Mass message any one of its inserts can be the failing
\* one
outcomes(msg, tree, fault) ==
    IF msg.op = "mass"
    THEN {handle_mass(tree, msg.entries, failAt) :
             failAt \in IF fault /\ msg.entries # <<>>
                        THEN 1..Len(msg.entries) ELSE {0}}
    ELSE {handle(msg, tree, fault)}

----------------------------------------------------------------------------
(* impl Storage for Sled (src/crates/kernel/src/storage/sled.rs): the      *)
(* adapter serializes, sends through the Handle and deserializes the reply *)

\* bincode of a key: the length, then the bytes
encode(k) == <<Len(k)>> \o k

Message(op, k, v, c) == [op |-> op, key |-> k, value |-> v, caller |-> c]

\* Storage::insert, up to the send
storage_insert(entity, c) ==
    Message("insert", encode(key(entity)), serialize(entity), c)

\* Storage::fetch, up to the send
storage_fetch(k, c) == Message("fetch", encode(k), <<>>, c)

\* Storage::delete, up to the send
storage_delete(k, c) == Message("delete", encode(k), <<>>, c)

\* what the adapter makes of the reply: `?` on an error, then deserialize
storage_result(op, reply) ==
    IF reply.tag # "Ok" THEN [tag |-> reply.tag, val |-> None]
    ELSE CASE op = "insert" -> [tag |-> "Ok", val |-> None]
           [] op = "fetch" -> IF reply.val = None
                              THEN [tag |-> "Ok", val |-> None]
                              ELSE deserialize(reply.val[1])
           [] op = "delete" -> deserialize(reply.val[1])
           [] op = "mass" -> [tag |-> "Ok", val |-> None]

\* Storage::query behind the reply: of the first `limit` values of the tree
\* those that deserialize as the entity type are kept, as summaries
storage_query(reply, limit) ==
    IF reply.tag # "Ok" THEN [tag |-> reply.tag, val |-> None]
    ELSE LET raw == reply.val[1]
             head == SubSeq(raw, 1, IF limit < Len(raw) THEN limit ELSE Len(raw))
             Entity(bytes) == deserialize(bytes).tag = "Ok"
             kept == SelectSeq(head, Entity)
         IN  [tag |-> "Ok",
              val |-> Some([n \in DOMAIN kept |->
                               summary(deserialize(kept[n]).val[1])])]

\* Storage::mass, up to the send: the serialized keys and entities
storage_mass(iterator, c) ==
    [op |-> "mass", key |-> <<>>, value |-> <<>>, caller |-> c,
     entries |-> [n \in DOMAIN iterator |->
                     <<encode(key(iterator[n])), serialize(iterator[n])>>]]

\* a second entity type: struct Thing { id, name, value } with NAME "things"
Things == [id : Ids, name : Texts, value : {1}]

\* bincode of a Thing
pack(thing) == <<thing.id, thing.name, thing.value>>

\* Storage::insert of a Thing, up to the send
thing_insert(thing, c) ==
    Message("insert", encode(id(thing.id)), pack(thing), c)

----------------------------------------------------------------------------
(* The calls.  last records the call of the last step and its outcome.     *)

Call(op, task, keys, before, stale, tag, val) ==
    [op |-> op, task |-> task, keys |-> keys, before |-> before,
     stale |-> stale, tag |-> tag, val |-> val]

Idle == [pc |-> "idle", key |-> None, before |-> None, after |-> None]

InitTx ==
    /\ data = Empty
    /\ index = Empty
    /\ upd = [t \in Tasks |-> Idle]
    /\ last = Call("new", 0, {}, None, FALSE, "Ok", None)
    /\ calls = 0

\* no call under way
Ready == [pc |-> "idle", op |-> "", key |-> None, reply |-> None]

\* Sled::new of the actor-backed adapter: Inner::new, then Actor::new
InitActor ==
    /\ db = Empty
    /\ chan = <<>>
    /\ call = [c \in Callers |-> Ready]
    /\ cell = "Idle"
    /\ registry = Empty
    /\ lock = "free"
    /\ work = None
    /\ log = <<>>
    /\ link = "open"

\* Pool::new(size, init): size handles and a semaphore of size permits
InitPool ==
    /\ sem = SIZE
    /\ permit = {}
    /\ taken = [t \in Getters |-> 0]
    /\ handed = None

\* Cache::new(ttl): an empty map
InitCache ==
    /\ cache = Empty
    /\ clock = 0
    /\ pend = [t \in Tasks |-> None]
    /\ written = [k \in Slots |-> None]
    /\ got = None

\* no call of record is under way, none has returned
InitMetric ==
    /\ recording = [t \in Tasks |-> None]
    /\ tally = [n \in Ops |-> [ok |-> 0, bad |-> 0, okLost |-> 0, badLost |-> 0]]

Init == InitTx /\ InitActor /\ InitPool /\ InitCache /\ InitMetric

\* a call is made, and none is between its read and its write
Begin ==
    /\ calls < MaxCalls
    /\ calls' = calls + 1

Insert(entity, fault) ==
    LET r == insert(data, index, entity, fault)
    IN  /\ Begin
        /\ data' = r.data
        /\ index' = r.index
        /\ last' = Call("insert", 0, {key(entity)}, None, FALSE, r.tag, r.val)
        /\ UNCHANGED <<upd, actorVars>>

Fetch(k, fault) ==
    LET r == fetch(data, k, fault)
    IN  /\ Begin
        /\ last' = Call("fetch", 0, {k}, None, FALSE, r.tag, r.val)
        /\ UNCHANGED <<data, index, upd, actorVars>>

Update(k, patch, fault) ==
    LET read == update_read(data, k, fault = "get")
        r == update(data, index, k, patch, fault)
    IN  /\ Begin
        /\ data' = r.data
        /\ index' = r.index
        /\ last' = Call("update", 0, {k}, read.val, FALSE, r.tag, r.val)
        /\ UNCHANGED <<upd, actorVars>>

Delete(k, fault) ==
    LET r == delete(data, index, k, fault)
    IN  /\ Begin
        /\ data' = r.data
        /\ index' = r.index
        /\ last' = Call("delete", 0, {k}, None, FALSE, r.tag, r.val)
        /\ UNCHANGED <<upd, actorVars>>

Mass(iterator, failAt) ==
    LET r == mass(data, index, iterator, failAt)
    IN  /\ Begin
        /\ data' = r.data
        /\ index' = r.index
        /\ last' = Call("mass", 0, {key(iterator[n]) : n \in DOMAIN iterator},
                        None, FALSE, r.tag, r.val)
        /\ UNCHANGED <<upd, actorVars>>

Keys == {id(n) : n \in Ids}

\* calls made one after the other
Next ==
    \/ \E entity \in Todos, fault \in BOOLEAN : Insert(entity, fault)
    \/ \E k \in Keys, fault \in BOOLEAN : Fetch(k, fault)
    \/ \E k \in Keys, patch \in Patches, fault \in {"none", "get", "txn"} :
          Update(k, patch, fault)
    \/ \E k \in Keys, fault \in BOOLEAN : Delete(k, fault)
    \/ \E iterator \in Batches, failAt \in 0..MaxBatch :
          failAt <= Len(iterator) /\ Mass(iterator, failAt)

Spec == Init /\ [][Next]_vars

----------------------------------------------------------------------------
(* Calls that overlap.  Storage::update runs Sled::update on a blocking     *)
(* thread (spawn_blocking), so between the read of one update and its      *)
(* write transaction other calls can commit.  Every transaction is one     *)
(* step.                                                                   *)

\* Sled::update up to the transform: the read, and `after` computed from it
UpdateRead(t, k, patch, fault) ==
    LET read == update_read(data, k, fault)
    IN  /\ upd[t].pc = "idle"
        /\ Begin
        /\ IF read.tag = "Ok"
           THEN /\ upd' = [upd EXCEPT ![t] =
                              [pc |-> "read", key |-> Some(k), before |-> read.val,
                               after |-> Some(change(patch, read.val[1]))]]
                /\ last' = Call("read", t, {k}, read.val, FALSE, "Ok", None)
           ELSE /\ upd' = upd
                /\ last' = Call("update", t, {k}, None, FALSE, read.tag, None)
        /\ UNCHANGED <<data, index, actorVars>>

\* Sled::update, the write transaction and the return
UpdateCommit(t, fault) ==
    LET u == upd[t]
        k == u.key[1]
        r == update_txn(data, index, k, u.before[1], u.after[1], fault)
    IN  /\ u.pc = "read"
        /\ data' = r.data
        /\ index' = r.index
        /\ upd' = [upd EXCEPT ![t] = Idle]
        /\ last' = Call("update", t, {k}, u.before,
                        get(data, k) # Some(serialize(u.before[1])),
                        r.tag, r.val)
        /\ UNCHANGED <<calls, actorVars>>

NextRace ==
    \/ \E entity \in Todos, fault \in BOOLEAN : Insert(entity, fault)
    \/ \E k \in Keys, fault \in BOOLEAN : Fetch(k, fault)
    \/ \E t \in Tasks, k \in Keys, patch \in Patches, fault \in BOOLEAN :
          UpdateRead(t, k, patch, fault)
    \/ \E t \in Tasks, fault \in BOOLEAN : UpdateCommit(t, fault)
    \/ \E k \in Keys, fault \in BOOLEAN : Delete(k, fault)
    \/ \E iterator \in Batches, failAt \in 0..MaxBatch :
          failAt <= Len(iterator) /\ Mass(iterator, failAt)

SpecRace == Init /\ [][NextRace]_vars

----------------------------------------------------------------------------
(* Queries between the writes of one caller *)

\* a query call that returned: what was asked and what it yielded
Asked(q, tag, val) ==
    [op |-> "query", task |-> 0, keys |-> {}, before |-> None,
     stale |-> FALSE, tag |-> tag, val |-> val, query |-> q]

Query(q, fault) ==
    LET r == query(data, index, q, fault)
    IN  /\ Begin
        /\ data' = r.data
        /\ index' = r.index
        /\ last' = Asked(q, r.tag, r.val)
        /\ UNCHANGED <<upd, actorVars>>

NextQuery ==
    \/ \E entity \in Todos : entity.text = 1 /\ Insert(entity, FALSE)
    \/ \E k \in Keys : Fetch(k, FALSE)
    \/ \E k \in Keys, patch \in Patches :
          patch.text = None /\ Update(k, patch, "none")
    \/ \E k \in Keys : Delete(k, FALSE)
    \/ \E q \in Queries, fault \in BOOLEAN : Query(q, fault)

SpecQuery == Init /\ [][NextQuery]_vars

----------------------------------------------------------------------------
(* The actor-backed adapter at work *)

\* the actor thread starts: cell.set(State::Running)
Start ==
    /\ cell = "Idle"
    /\ cell' = "Running"
    /\ UNCHANGED <<txVars, last, calls, db, chan, call, registry, lock,
                 work, log>>

\* a channel that takes a message whether or not it has room
Send_over(c, msg, k) ==
    /\ call[c].pc = "idle"
    /\ link = "open"
    /\ Begin
    /\ chan' = Append(chan, msg)
    /\ call' = [call EXCEPT ![c] =
                   [pc |-> "wait", op |-> msg.op, key |-> Some(k), reply |-> None]]
    /\ UNCHANGED <<txVars, last, db, cell, registry, lock, work, log>>

\* Handle::insert / fetch / delete up to the await of the reply: the message
\* enters the channel when it has room
Send(c, msg, k) ==
    /\ call[c].pc = "idle"
    /\ link = "open"
    /\ Len(chan) < CAPACITY
    /\ Begin
    /\ chan' = Append(chan, msg)
    /\ call' = [call EXCEPT ![c] =
                   [pc |-> "wait", op |-> msg.op, key |-> Some(k), reply |-> None]]
    /\ UNCHANGED <<txVars, last, db, cell, registry, lock, work, log>>

StorageInsert(c, entity) == Send(c, storage_insert(entity, c), key(entity))

StorageFetch(c, k) == Send(c, storage_fetch(k, c), k)

StorageDelete(c, k) == Send(c, storage_delete(k, c), k)

\* the caller field of a message whose reply receiver is dropped
Gone == 0

\* respond.send(res): the reply reaches the caller that awaits it; when the
\* receiver is gone the send fails, which is logged and nothing else
deliver(slots, c, reply) ==
    IF c \in DOMAIN slots THEN [slots EXCEPT ![c].reply = Some(reply)]
    ELSE slots

\* a loop that throws away a message nobody waits for
Handle_skip(fault) ==
    /\ cell = "Running"
    /\ chan # <<>>
    /\ work = None
    /\ link # "broken"
    /\ \E r \in outcomes(Head(chan), db, fault) :
          LET msg == Head(chan)
              gone == msg.caller = Gone
          IN  /\ db' = IF gone THEN db ELSE r.db
              /\ registry' = IF gone THEN registry
                             ELSE record(registry, lock, msg.op, r.tag # "Ok")
              /\ call' = deliver(call, msg.caller, [tag |-> r.tag, val |-> r.val])
    /\ chan' = Tail(chan)
    /\ UNCHANGED <<txVars, last, calls, cell, lock, work, log>>

\* a loop that a failed backend call brings to an end
Handle_fatal(fault) ==
    /\ cell = "Running"
    /\ chan # <<>>
    /\ work = None
    /\ link # "broken"
    /\ \E r \in outcomes(Head(chan), db, fault) :
          LET msg == Head(chan)
          IN  /\ db' = r.db
              /\ registry' = record(registry, lock, msg.op, r.tag # "Ok")
              /\ call' = deliver(call, msg.caller, [tag |-> r.tag, val |-> r.val])
              /\ cell' = IF r.tag # "Ok" THEN "Error" ELSE cell
    /\ chan' = Tail(chan)
    /\ UNCHANGED <<txVars, last, calls, lock, work, log>>

\* the actor loop: blocking_recv, handler::handle (the backend call, the
\* metric record, the reply)
Handle(fault) ==
    /\ cell = "Running"
    /\ chan # <<>>
    /\ work = None
    /\ link # "broken"
    /\ \E r \in outcomes(Head(chan), db, fault) :
          LET msg == Head(chan)
          IN  /\ db' = r.db
              /\ registry' = record(registry, lock, msg.op, r.tag # "Ok")
              /\ call' = deliver(call, msg.caller, [tag |-> r.tag, val |-> r.val])
    /\ chan' = Tail(chan)
    /\ UNCHANGED <<txVars, last, calls, cell, lock, work, log>>

\* what the reply slot of a caller holds when the sender of the reply was
\* dropped without a send
Lost == [tag |-> "Lost", val |-> None]

\* an await that hands the caller whatever the slot holds
awaited_raw(reply) == reply

\* rx.await.map_err(|_| Error::Aborted)?: the reply, or Aborted when the
\* sender is gone
awaited(reply) ==
    IF reply = Lost THEN [tag |-> "Aborted", val |-> None] ELSE reply

\* the caller's await of the reply returns and the adapter finishes the call
Receive(c) ==
    /\ call[c].pc = "wait"
    /\ call[c].reply # None
    /\ LET r == storage_result(call[c].op, awaited(call[c].reply[1]))
       IN  last' = Call(call[c].op, c, {call[c].key[1]}, None, FALSE,
                        r.tag, r.val)
    /\ call' = [call EXCEPT ![c] = Ready]
    /\ UNCHANGED <<txVars, calls, db, chan, cell, registry, lock, work, log>>

\* Registry::stats on another thread: the read lock on the map is taken ...
StatsBegin ==
    /\ lock = "free"
    /\ lock' = "read"
    /\ UNCHANGED <<txVars, last, calls, db, chan, call, cell, registry,
                 work, log>>

\* ... and released
StatsEnd ==
    /\ lock = "read"
    /\ lock' = "free"
    /\ UNCHANGED <<txVars, last, calls, db, chan, call, cell, registry,
                 work, log>>

\* the caller drops the future of its call: the message stays where it is,
\* the receiver of its reply is gone
Drop(c) ==
    /\ call[c].pc = "wait"
    /\ chan' = [n \in DOMAIN chan |->
                   IF chan[n].caller = c THEN [chan[n] EXCEPT !.caller = Gone]
                   ELSE chan[n]]
    /\ work' = IF work # None /\ work[1].msg.caller = c
               THEN Some([work[1] EXCEPT !.msg.caller = Gone])
               ELSE work
    /\ call' = [call EXCEPT ![c] = Ready]
    /\ last' = Call(call[c].op, c, {call[c].key[1]}, None, FALSE, "Dropped",
                    None)
    /\ UNCHANGED <<txVars, calls, db, cell, registry, lock, log>>

\* Storage::insert of a Thing on the same store
ThingInsert(c, thing) == Send(c, thing_insert(thing, c), id(thing.id))

NextActor ==
    \/ Start
    \/ \E c \in Callers, entity \in Bulk : StorageInsert(c, entity)
    \/ \E c \in Callers, k \in Keys : StorageFetch(c, k)
    \/ \E c \in Callers, k \in Keys : StorageDelete(c, k)
    \/ \E fault \in BOOLEAN : Handle(fault)
    \/ \E c \in Callers : Receive(c)
    \/ StatsBegin
    \/ StatsEnd

SpecActor == Init /\ [][NextActor]_vars

\* callers that give up on calls they have made
NextCancel ==
    \/ Start
    \/ \E c \in Callers, entity \in Bulk : StorageInsert(c, entity)
    \/ \E c \in Callers, k \in Keys : StorageFetch(c, k)
    \/ \E c \in Callers, k \in Keys : StorageDelete(c, k)
    \/ \E c \in Callers : Drop(c)
    \/ \E fault \in BOOLEAN : Handle(fault)
    \/ \E c \in Callers : Receive(c)

SpecCancel == Init /\ [][NextCancel]_vars

\* Storage::mass
StorageMass(c, iterator) == Send(c, storage_mass(iterator, c), <<>>)

\* a mass call that returned: what was given, the insert that failed (0 for
\* none) and what it returned
Loaded(iterator, failAt, tag, val) ==
    [op |-> "mass", task |-> 0,
     keys |-> {key(iterator[n]) : n \in DOMAIN iterator}, before |-> None,
     stale |-> FALSE, tag |-> tag, val |-> val, load |-> iterator,
     failed |-> failAt]

Load(iterator, failAt) ==
    LET r == mass(data, index, iterator, failAt)
    IN  /\ Begin
        /\ data' = r.data
        /\ index' = r.index
        /\ last' = Loaded(iterator, failAt, r.tag, r.val)
        /\ UNCHANGED <<upd, actorVars>>

\* mass and fetch on the transactional adapter
NextLoad ==
    \/ \E iterator \in Loads, failAt \in 0..MaxLoad :
          failAt <= Len(iterator) /\ Load(iterator, failAt)
    \/ \E k \in Keys : Fetch(k, FALSE)

SpecLoad == Init /\ [][NextLoad]_vars

\* mass on a store of each adapter, the actor-backed one with one caller
NextMass ==
    \/ \E iterator \in Batches, failAt \in 0..MaxBatch :
          failAt <= Len(iterator) /\ Load(iterator, failAt)
    \/ Start
    \/ \E iterator \in Batches : StorageMass(1, iterator)
    \/ \E fault \in BOOLEAN : Handle(fault)
    \/ Receive(1)

SpecMass == Init /\ [][NextMass]_vars

\* todos and things in one store
NextTypes ==
    \/ NextActor
    \/ \E c \in Callers, thing \in Things : ThingInsert(c, thing)

SpecTypes == Init /\ [][NextTypes]_vars

\* fetch on a store of each adapter, between the inserts and deletes that
\* decide what it finds
NextFetch ==
    \/ \E entity \in Bulk, fault \in BOOLEAN : Insert(entity, fault)
    \/ \E k \in Keys, fault \in BOOLEAN : Fetch(k, fault)
    \/ \E k \in Keys, fault \in BOOLEAN : Delete(k, fault)
    \/ NextActor

SpecFetch == Init /\ [][NextFetch]_vars

----------------------------------------------------------------------------
(* Properties of the transactional adapter *)

\* the entity stored at key k of data tree d
Stored(d, k) == deserialize(d[k]).val[1]

\* what a fetch of k answers when the backend does not fail
Fetched(d, k) == fetch(d, k, FALSE)

\* the index entries whose summary names entity n
EntriesOf(i, n) == {x \in DOMAIN i : debrief(i[x]).val[1].id = n}

\* no update is between its read and its write
Quiescent == \A t \in Tasks : upd[t].pc = "idle"

\* the index keys are exactly the index() of the stored entities, one each
DualTree(d, i) ==
    /\ DOMAIN i = {idx(Stored(d, k)) : k \in DOMAIN d}
    /\ Cardinality(DOMAIN i) = Cardinality(DOMAIN d)

\* C1: after any sequence of insert, update, delete and mass calls the key
\* set of the index tree is exactly the set of index() of the entities in the
\* data tree, and both trees have the same number of entries.
C1_DualTree == DualTree(data, index)

\* C2: for every entity stored in the data tree, the index tree holds at its
\* index() a value that deserializes to the summary() of the stored entity.
C2_Covering ==
    \A k \in DOMAIN data :
        LET e == Stored(data, k)
        IN  /\ idx(e) \in DOMAIN index
            /\ debrief(index[idx(e)]) = [tag |-> "Ok", val |-> Some(summary(e))]

\* C3: an insert either returns Ok with the data entry and the index entry of
\* its entity both written, or returns an error with both trees as they were;
\* this also holds while updates of other tasks are under way.
C3_InsertAtomic ==
    [][\A e \in Todos, fault \in BOOLEAN :
          (last'.op = "insert" /\ Insert(e, fault)) =>
              \/ /\ last'.tag = "Ok"
                 /\ get(data', key(e)) = Some(serialize(e))
                 /\ get(index', idx(e)) = Some(brief(summary(e)))
              \/ /\ last'.tag # "Ok"
                 /\ data' = data
                 /\ index' = index]_vars

\* a failed insert on a store that holds entities
C3_Witness ==
    /\ last.op = "insert"
    /\ last.tag = "Store"
    /\ DOMAIN data # {}
    /\ C2_Covering

\* C4: after insert(e) returned Ok, fetch(e.key()) answers Some(e), also when
\* the key was already stored, and the answer of fetch(k) changes only in a
\* step of an insert, update, delete or mass call on k.
C4_RoundTrip ==
    [][/\ \A e \in Todos :
             (Insert(e, FALSE) /\ last'.tag = "Ok") =>
                 Fetched(data', key(e)) = [tag |-> "Ok", val |-> Some(e)]
       /\ \A k \in Keys :
             (k \notin last'.keys \/ last'.op \in {"fetch", "read"}) =>
                 Fetched(data', k) = Fetched(data, k)]_vars

\* an insert on a key that was stored before with another index key
C4_Witness ==
    /\ last.op = "insert"
    /\ last.tag = "Ok"
    /\ \E k \in last.keys :
          /\ k \in DOMAIN data
          /\ Cardinality(EntriesOf(index, Stored(data, k).id)) > 1

\* C5: an update of a stored key k with no other call under way returns f(p),
\* fetch(k) then answers Some(f(p)), and when the index key changes, the entry
\* at index(p) is gone and the entity has exactly one index entry, the one at
\* index(f(p)) with summary(f(p)).
C5_Update ==
    [][\A k \in Keys, patch \in Patches :
          (Update(k, patch, "none") /\ get(data, k) # None) =>
              LET p == Stored(data, k)
                  q == change(patch, p)
              IN  /\ last'.tag = "Ok"
                  /\ last'.val = Some(q)
                  /\ Fetched(data', k) = [tag |-> "Ok", val |-> Some(q)]
                  /\ idx(q) # idx(p) =>
                        /\ idx(p) \notin DOMAIN index'
                        /\ EntriesOf(index', p.id) = {idx(q)}
                        /\ index'[idx(q)] = brief(summary(q))]_vars

\* C6: delete of a stored key k returns the stored entity e, after which
\* fetch(k) answers None and the index tree has no entry at index(e); when the
\* transaction fails, neither tree changes.
C6_Delete ==
    [][\A k \in Keys, fault \in BOOLEAN :
          (Delete(k, fault) /\ get(data, k) # None) =>
              LET e == Stored(data, k)
              IN  IF fault
                  THEN last'.tag = "Store" /\ data' = data /\ index' = index
                  ELSE /\ last'.tag = "Ok"
                       /\ last'.val = Some(e)
                       /\ Fetched(data', k) = [tag |-> "Ok", val |-> None]
                       /\ idx(e) \notin DOMAIN index'
                       /\ k \notin DOMAIN data']_vars

\* a delete that returned its entity while another entity stays stored
C6_Witness ==
    /\ last.op = "delete"
    /\ last.tag = "Ok"
    /\ last.val # None
    /\ DOMAIN data # {}

\* C7: when the dual-tree invariant holds and an update that overlapped other
\* calls commits as the last call under way, the invariant still holds.
C7_Race ==
    [][(DualTree(data, index) /\ last'.op = "update" /\ Quiescent') =>
          DualTree(data', index')]_vars

\* C8: an update whose write transaction runs on a stored key commits, returns
\* f(p) for the entity p it read itself and leaves f(p) stored at the key,
\* whatever other updates committed since it read.
C8_LastCommit ==
    [][/\ \A t \in Tasks, k \in Keys, patch \in Patches :
             (last'.op = "read" /\ UpdateRead(t, k, patch, FALSE)) =>
                 /\ upd'[t].before = Some(Stored(data, k))
                 /\ upd'[t].after = Some(change(patch, Stored(data, k)))
       /\ \A t \in Tasks :
             (UpdateCommit(t, FALSE) /\ get(data, upd[t].key[1]) # None) =>
                 /\ last'.tag = "Ok"
                 /\ last'.val = upd[t].after
                 /\ get(data', upd[t].key[1]) = Some(serialize(upd[t].after[1]))
                 /\ Quiescent' =>
                       Fetched(data', upd[t].key[1]) =
                           [tag |-> "Ok", val |-> upd[t].after]]_vars

\* the last of two updates has committed over the commit of the other
C8_Witness ==
    /\ last.op = "update"
    /\ last.tag = "Ok"
    /\ last.stale
    /\ Quiescent
    /\ calls = 3

\* C9: update and delete of a key that is not in the data tree return Missing
\* without a value and leave both trees unchanged.
C9_Missing ==
    [][\A k \in Keys :
          (/\ get(data, k) = None
           /\ \/ \E patch \in Patches : Update(k, patch, "none")
              \/ \E patch \in Patches : Update(k, patch, "txn")
              \/ Delete(k, FALSE)) =>
              /\ last'.tag = "Missing"
              /\ last'.val = None
              /\ data' = data
              /\ index' = index]_vars

\* an update of a missing key on a store that holds another entity
C9_Witness ==
    /\ last.op = "update"
    /\ last.tag = "Missing"
    /\ DOMAIN data # {}

----------------------------------------------------------------------------
(* Properties of fetch on both adapters *)

Successes(map, name) == IF name \in DOMAIN map THEN map[name].count ELSE 0

Failures(map, name) == IF name \in DOMAIN map THEN map[name].fail ELSE 0

NoEntity == [tag |-> "Ok", val |-> None]

\* the actor handles, without a backend failure, a Fetch of a key not stored
FetchOfMissing ==
    /\ Handle(FALSE)
    /\ Head(chan).op = "fetch"
    /\ get(db, Head(chan).key) = None

\* fetch of a key that is not stored answers Ok(None) on the transactional
\* adapter, at the actor Handle and on the actor-backed adapter
FetchAnswersNone ==
    /\ \A k \in Keys :
          (Fetch(k, FALSE) /\ get(data, k) = None) =>
              (last'.tag = "Ok" /\ last'.val = None)
    /\ FetchOfMissing => call'[Head(chan).caller].reply = Some(NoEntity)
    /\ \A c \in Callers :
          (Receive(c) /\ call[c].op = "fetch" /\ call[c].reply = Some(NoEntity)) =>
              (last'.tag = "Ok" /\ last'.val = None)

\* C10 as claimed: fetch of a key that is not stored answers Ok(None) on both
\* adapters and at the actor Handle, and the registry counts one more
\* successful fetch.
C10_FetchMissing ==
    [][/\ FetchAnswersNone
       /\ FetchOfMissing =>
             /\ Successes(registry', "fetch") = Successes(registry, "fetch") + 1
             /\ Failures(registry', "fetch") = Failures(registry, "fetch")]_vars

\* C10 as amended: fetch of a key that is not stored answers Ok(None) on both
\* adapters and at the actor Handle; the actor records it with failed = false,
\* so the registry counts one more successful fetch when its lock is free at
\* that moment and stays unchanged when the lock is held, and its failure
\* count never grows.
C10_FetchMissingRecorded ==
    [][/\ FetchAnswersNone
       /\ FetchOfMissing =>
             /\ Failures(registry', "fetch") = Failures(registry, "fetch")
             /\ IF lock = "free"
                THEN /\ Successes(registry', "fetch") =
                            Successes(registry, "fetch") + 1
                     /\ \A n \in DOMAIN registry :
                           n # "fetch" => registry'[n] = registry[n]
                ELSE registry' = registry]_vars

\* a fetch of a missing key was answered at the Handle while stats held the
\* registry lock, on a store that holds another entity
C10_Witness ==
    /\ \E c \in Callers : call[c].op = "fetch" /\ call[c].reply = Some(NoEntity)
    /\ lock = "read"
    /\ "fetch" \notin DOMAIN registry
    /\ DOMAIN db # {}

----------------------------------------------------------------------------
(* The actor loop step by step (src/crates/kernel/src/storage/actor.rs and *)
(* actor/handler.rs), with callers at the Handle                            *)

\* the one key the callers at the Handle deal with, and the batch of every
\* bulk todo in the order of the identifiers
Key == id(CHOOSE n \in Ids : \A m \in Ids : n <= m)
Whole == [n \in Ids |-> CHOOSE e \in Bulk : e.id = n]

\* the messages a caller can send through its Handle
Requests(c) ==
    {storage_insert(e, c) : e \in {t \in Cargo : key(t) = Key}}
        \cup {storage_fetch(Key, c)}
        \cup {Message("update", encode(key(e)), serialize(e), c) :
                 e \in {t \in Bulk : key(t) = Key}}
        \cup {storage_delete(Key, c)}
        \cup {Message("query", <<>>, <<>>, c)}
        \cup {storage_mass(Whole, c)}
        \cup {Message("keys", <<>>, <<>>, c)}

\* Handle::insert / fetch / update / delete / query / mass / keys up to the
\* await of the reply
Request(c, msg) == Send(c, msg, msg.key)

\* the message in the hands of the actor thread: how far handler::handle has
\* come, the result of the backend call and the call of record made for it
Working(msg, pc, res, rec) == [msg |-> msg, pc |-> pc, res |-> res, rec |-> rec]

\* a loop that takes the next message while the handler has not returned
Take_early ==
    /\ cell = "Running"
    /\ chan # <<>>
    /\ work' = Some(Working(Head(chan), "taken", None, None))
    /\ chan' = Tail(chan)
    /\ log' = Append(log, [msg |-> Head(chan), res |-> None])
    /\ UNCHANGED <<txVars, last, calls, db, call, cell, registry, lock>>

\* a loop that takes the newest message
Take_last ==
    /\ cell = "Running"
    /\ chan # <<>>
    /\ work = None
    /\ work' = Some(Working(chan[Len(chan)], "taken", None, None))
    /\ chan' = SubSeq(chan, 1, Len(chan) - 1)
    /\ log' = Append(log, [msg |-> chan[Len(chan)], res |-> None])
    /\ UNCHANGED <<txVars, last, calls, db, call, cell, registry, lock>>

\* rx.blocking_recv() returns the oldest message of the channel
Take ==
    /\ cell = "Running"
    /\ chan # <<>>
    /\ work = None
    /\ work' = Some(Working(Head(chan), "taken", None, None))
    /\ chan' = Tail(chan)
    /\ log' = Append(log, [msg |-> Head(chan), res |-> None])
    /\ UNCHANGED <<txVars, last, calls, db, call, cell, registry, lock>>

\* the arm of handler::handle up to `let res`: the backend calls
Execute(fault) ==
    /\ work # None
    /\ work[1].pc = "taken"
    /\ \E r \in outcomes(work[1].msg, db, fault) :
          /\ db' = r.db
          /\ work' = Some(Working(work[1].msg, "done",
                                  Some([tag |-> r.tag, val |-> r.val]), None))
          /\ log' = [log EXCEPT ![Len(log)].res = Some(r)]
    /\ UNCHANGED <<txVars, last, calls, chan, call, cell, registry, lock>>

\* metric.record(name, res.is_err())
Record ==
    /\ work # None
    /\ work[1].pc = "done"
    /\ LET name == work[1].msg.op
           failed == work[1].res[1].tag # "Ok"
       IN  /\ registry' = record(registry, lock, name, failed)
           /\ work' = Some(Working(work[1].msg, "recorded", work[1].res,
                                   Some([name |-> name, failed |-> failed])))
    /\ UNCHANGED <<txVars, last, calls, db, chan, call, cell, lock, log>>

\* a handler that sends the reply before it records
Respond_early ==
    /\ work # None
    /\ work[1].pc = "done"
    /\ call' = [call EXCEPT ![work[1].msg.caller].reply = work[1].res]
    /\ work' = None
    /\ UNCHANGED <<txVars, last, calls, db, chan, cell, registry, lock, log>>

\* respond.send(res), the end of handler::handle
Respond ==
    /\ work # None
    /\ work[1].pc = "recorded"
    /\ call' = [call EXCEPT ![work[1].msg.caller].reply = work[1].res]
    /\ work' = None
    /\ UNCHANGED <<txVars, last, calls, db, chan, cell, registry, lock, log>>

\* rx.await of the Handle returns the reply to the caller
Answer(c) ==
    /\ call[c].pc = "wait"
    /\ call[c].reply # None
    /\ last' = Call(call[c].op, c, {call[c].key[1]}, None, FALSE,
                    awaited(call[c].reply[1]).tag, awaited(call[c].reply[1]).val)
    /\ call' = [call EXCEPT ![c] = Ready]
    /\ UNCHANGED <<txVars, calls, db, chan, cell, registry, lock, work, log>>

\* the loop step by step; the callers make one call fewer than MaxCalls
NextSteps ==
    \/ Start
    \/ \E c \in Callers : \E msg \in Requests(c) :
          calls + 1 < MaxCalls /\ Request(c, msg)
    \/ Take
    \/ \E fault \in BOOLEAN : Execute(fault)
    \/ Record
    \/ Respond
    \/ \E c \in Callers : Answer(c)
    \/ StatsBegin
    \/ StatsEnd

SpecSteps == Init /\ [][NextSteps]_vars

----------------------------------------------------------------------------
(* The ends of the channel *)

\* self.sender.send(msg).await.map_err(|_| Error::Aborted)? on a channel
\* whose receiver is dropped: the message is not enqueued
Refuse(c, msg) ==
    /\ call[c].pc = "idle"
    /\ link = "broken"
    /\ Begin
    /\ last' = Call(msg.op, c, {msg.key}, None, FALSE, "Aborted", None)
    /\ UNCHANGED <<data, index, upd, db, chan, call, cell, registry, lock, work,
                   log, kitVars>>

\* the actor thread ends while Handles are alive (a panic below the loop
\* unwinds it): the receiver is dropped, with it the messages of the channel
\* and the senders of their replies; State::Stopped is not set
Die ==
    /\ cell = "Running"
    /\ link = "open"
    /\ link' = "broken"
    /\ chan' = <<>>
    /\ work' = None
    /\ call' = [c \in Callers |->
                   IF call[c].pc = "wait" /\ call[c].reply = None
                   THEN [call[c] EXCEPT !.reply = Some(Lost)]
                   ELSE IF call[c].pc = "send"
                   THEN [pc |-> "wait", op |-> call[c].op, key |-> call[c].key,
                         reply |-> Some(Lost)]
                   ELSE call[c]]
    /\ UNCHANGED <<data, index, upd, last, calls, db, cell, registry, lock, log,
                   sideVars>>

\* the Actor and every Handle are dropped when no call is under way: the
\* channel is closed, the messages in it stay
Close ==
    /\ link = "open"
    /\ \A c \in Callers : call[c].pc = "idle"
    /\ link' = "closed"
    /\ UNCHANGED <<data, index, upd, last, calls, db, chan, call, cell,
                   registry, lock, work, log, sideVars>>

\* a loop that ends as soon as the channel is closed, whatever it holds
Stop_early ==
    /\ cell = "Running"
    /\ link = "closed"
    /\ work = None
    /\ cell' = "Stopped"
    /\ UNCHANGED <<data, index, upd, last, calls, db, chan, call, registry,
                   lock, work, log, kitVars>>

\* blocking_recv returns None on the closed and empty channel, the loop ends
\* and cell.set(State::Stopped) runs
Stop ==
    /\ cell = "Running"
    /\ link = "closed"
    /\ chan = <<>>
    /\ work = None
    /\ cell' = "Stopped"
    /\ UNCHANGED <<data, index, upd, last, calls, db, chan, call, registry,
                   lock, work, log, kitVars>>

\* the life of an actor with callers at the Handle, which make one call
\* fewer than MaxCalls
NextLife ==
    \/ Start
    \/ \E c \in Callers : \E msg \in Requests(c) :
          calls + 1 < MaxCalls /\ Request(c, msg)
    \/ \E c \in Callers : \E msg \in Requests(c) :
          calls + 1 < MaxCalls /\ Refuse(c, msg)
    \/ \E c \in Callers : Drop(c)
    \/ \E fault \in BOOLEAN : Handle(fault)
    \/ \E c \in Callers : Answer(c)
    \/ Die
    \/ Close
    \/ Stop

SpecLife == Init /\ [][NextLife]_vars

----------------------------------------------------------------------------
(* Properties of query on the transactional adapter *)

\* the index keys that begin with a prefix
Matching(i, prefix) ==
    {k \in DOMAIN i :
        Len(k) >= Len(prefix) /\ SubSeq(k, 1, Len(prefix)) = prefix}

\* the elements of a sequence
Range(seq) == {seq[n] : n \in DOMAIN seq}

\* a query call without failure has just returned
Queried == last'.op = "query" /\ Query(last'.query, FALSE)

\* keys are the first `limit` of the set S in ascending byte order
FirstOf(keys, S, limit) ==
    /\ Len(keys) = (IF limit < Cardinality(S) THEN limit ELSE Cardinality(S))
    /\ Range(keys) \subseteq S
    /\ \A n, m \in DOMAIN keys : n < m => less(keys[n], keys[m])
    /\ \A k \in S \ Range(keys) : \A n \in DOMAIN keys : less(keys[n], k)

\* the summaries stored in the index tree at the keys, in their order
Summaries(i, keys) ==
    [n \in DOMAIN keys |-> [tag |-> "Ok", val |-> Some(debrief(i[keys[n]]).val[1])]]

\* C11: a query without cursor yields, in ascending byte order of index
\* key, exactly the first `limit` of the index entries whose key begins with
\* the prefix, all of them being taken when the prefix is empty, and never
\* more than `limit` items.
C11_Prefix ==
    [][(Queried /\ last'.query.after = None) =>
          LET q == last'.query
              keys == scan(index, q)
          IN  /\ last'.tag = "Ok"
              /\ last'.val = Some(Summaries(index, keys))
              /\ Len(last'.val[1]) <= q.limit
              /\ FirstOf(keys, Matching(index, q.prefix), q.limit)]_vars

\* the place of a key in a sequence of keys
Place(keys, k) == CHOOSE n \in DOMAIN keys : keys[n] = k

\* C12: Key::time reverses the byte order of timestamps, so a query for the
\* todos of one status yields them most recent first: of two stored todos of
\* that status created at different times, the older one is yielded only
\* behind the newer one.
C12_Recent ==
    [][\A b \in BOOLEAN :
          (Queried /\ last'.query.prefix = flag(b) /\ last'.query.after = None) =>
              LET keys == scan(index, last'.query)
              IN  /\ \A t0, t1 \in Times : t0 < t1 => less(time(t1), time(t0))
                  /\ \A k0, k1 \in DOMAIN data :
                        LET e0 == Stored(data, k0)
                            e1 == Stored(data, k1)
                        IN  (/\ e0.done = b
                             /\ e1.done = b
                             /\ e0.created < e1.created
                             /\ idx(e0) \in Range(keys)) =>
                                /\ idx(e1) \in Range(keys)
                                /\ Place(keys, idx(e1)) < Place(keys, idx(e0))
                                /\ last'.val[1][Place(keys, idx(e0))].val[1].id = e0.id
                                /\ last'.val[1][Place(keys, idx(e1))].val[1].id = e1.id]_vars

\* a query has yielded two todos of one status created at different times
C12_Witness ==
    /\ last.op = "query"
    /\ last.tag = "Ok"
    /\ last.query.after = None
    /\ Len(last.val[1]) = 2
    /\ \E k0, k1 \in DOMAIN data :
          /\ Stored(data, k0).created < Stored(data, k1).created
          /\ Stored(data, k0).done = Stored(data, k1).done
          /\ last.query.prefix = flag(Stored(data, k0).done)

\* what a query yields when nothing fails
Page(d, i, prefix, after, limit) ==
    query(d, i, [prefix |-> prefix, after |-> after, limit |-> limit], FALSE).val[1]

\* C13: when a query without cursor has yielded page1 and nothing is written,
\* the query with the index key of the last item of page1 as cursor yields a
\* page2 that has no item in common with page1, and page1 followed by page2
\* is what one query without cursor and with the sum of the limits yields.
C13_Pages ==
    [][(Queried /\ last'.query.after = None /\ last'.val[1] # <<>>) =>
          \A b \in 0..MaxLimit :
              LET q == last'.query
                  page1 == last'.val[1]
                  keys == scan(index, q)
                  cursor == Some(keys[Len(keys)])
                  page2 == Page(data', index', q.prefix, cursor, b)
              IN  /\ Range(page1) \cap Range(page2) = {}
                  /\ page1 \o page2 =
                        Page(data', index', q.prefix, None, q.limit + b)]_vars

\* C14: fetch and query change neither the data tree nor the index tree, and
\* the same fetch or query made again right after, with no write in between,
\* returns the same entity or the same sequence of summaries.
C14_ReadOnly ==
    [][/\ \A fault \in BOOLEAN :
             (last'.op = "query" /\ Query(last'.query, fault)) =>
                 /\ data' = data
                 /\ index' = index
                 /\ ~fault =>
                       LET q == last'.query
                       IN  Page(data', index', q.prefix, q.after, q.limit) =
                               last'.val[1]
       /\ \A k \in Keys :
             (last'.op = "fetch" /\ Fetch(k, FALSE)) =>
                 /\ data' = data
                 /\ index' = index
                 /\ Fetched(data', k) = [tag |-> last'.tag, val |-> last'.val]]_vars

\* a query behind a cursor has yielded a page from a store of two entities
C14_Witness ==
    /\ last.op = "query"
    /\ last.tag = "Ok"
    /\ last.query.after # None
    /\ last.val[1] # <<>>
    /\ Cardinality(DOMAIN data) = 2

----------------------------------------------------------------------------
(* Properties of the actor-backed adapter *)

\* what Storage::fetch of a todo returns on a tree when nothing fails
TodoFetch(tree, k) ==
    LET r == handle_fetch(tree, encode(k), FALSE)
    IN  storage_result("fetch", [tag |-> r.tag, val |-> r.val])

\* what Storage::query of todos returns on a tree when nothing fails
TodoQuery(tree, limit) ==
    LET r == handle_query(tree, FALSE)
    IN  storage_query([tag |-> r.tag, val |-> r.val], limit)

\* C15: entity types with different NAME in one store are isolated: a write
\* of one type does not change what fetch or query of the other type
\* returns.  Stated for the actor-backed adapter and the insert of a Thing
\* (NAME "things") next to the todos (NAME "todos").
C15_Isolation ==
    [][\A fault \in BOOLEAN :
          (/\ Handle(fault)
           /\ Head(chan).op = "insert"
           /\ Head(chan).value \in {pack(thing) : thing \in Things}) =>
              /\ \A k \in Keys : TodoFetch(db', k) = TodoFetch(db, k)
              /\ \A limit \in 0..MaxLimit :
                    TodoQuery(db', limit) = TodoQuery(db, limit)]_vars

----------------------------------------------------------------------------
(* Properties of mass *)

\* the entities of a sequence inserted one after the other, each by insert
RECURSIVE Each(_, _, _)
Each(d, i, entities) ==
    IF entities = <<>> THEN Outcome(d, i, "Ok", None)
    ELSE LET r == insert(d, i, Head(entities), FALSE)
         IN  Each(r.data, r.index, Tail(entities))

\* the entries of a sequence written one after the other into a tree
RECURSIVE Written(_, _)
Written(tree, entries) ==
    IF entries = <<>> THEN tree
    ELSE Written(put(tree, entries[1][1], entries[1][2]), Tail(entries))

\* the last entity of a sequence that has the key
Latest(entities, k) ==
    entities[CHOOSE n \in DOMAIN entities :
                /\ key(entities[n]) = k
                /\ \A m \in DOMAIN entities : key(entities[m]) = k => m <= n]

\* C16: mass without a failure returns Ok and leaves the trees as the inserts
\* of its entities, made one by one in the order of the input, leave them:
\* fetch answers the last entity given for each key and the index holds its
\* summary; this for the empty input, for inputs shorter than a chunk, of
\* exactly a chunk and longer than a chunk.
C16_Mass ==
    [][(/\ calls' # calls
        /\ last'.op = "mass"
        /\ last'.task = 0
        /\ last'.failed = 0
        /\ Load(last'.load, 0)) =>
           LET iterator == last'.load
               each == Each(data, index, iterator)
           IN  /\ last'.tag = "Ok"
               /\ data' = each.data
               /\ index' = each.index
               /\ \A n \in DOMAIN iterator :
                     LET k == key(iterator[n])
                         e == Latest(iterator, k)
                     IN  /\ Fetched(data', k) = [tag |-> "Ok", val |-> Some(e)]
                         /\ get(index', idx(e)) = Some(brief(summary(e)))]_vars

\* a mass of more than a chunk has filled an empty store, the later todo of
\* one key replacing the earlier
C16_Witness ==
    /\ last.op = "mass"
    /\ last.task = 0
    /\ last.tag = "Ok"
    /\ calls = 1
    /\ Len(last.load) > CHUNK
    /\ key(last.load[1]) = key(last.load[Len(last.load)])
    /\ last.load[1].text # last.load[Len(last.load)].text
    /\ Cardinality(DOMAIN data) = 2

\* C17: when the insert of entity number n of a mass fails, mass returns an
\* error, the entities before number n are stored as their inserts leave
\* them and neither entity n nor any later one is written; a Mass message
\* whose insert of some entry fails is answered Aborted, with the entries
\* before it written and no other, and Storage::mass returns that error.
C17_MassAbort ==
    [][/\ (/\ calls' # calls
           /\ last'.op = "mass"
           /\ last'.task = 0
           /\ last'.failed > 0
           /\ Load(last'.load, last'.failed)) =>
              LET before == SubSeq(last'.load, 1, last'.failed - 1)
                  each == Each(data, index, before)
              IN  /\ last'.tag = "Store"
                  /\ data' = each.data
                  /\ index' = each.index
       /\ (Handle(TRUE) /\ Head(chan).op = "mass" /\ Head(chan).entries # <<>>) =>
             LET msg == Head(chan)
             IN  /\ call'[msg.caller].reply = Some([tag |-> "Aborted", val |-> None])
                 /\ \E n \in 1..Len(msg.entries) :
                       db' = Written(db, SubSeq(msg.entries, 1, n - 1))
       /\ \A c \in Callers :
             (Receive(c) /\ call[c].op = "mass"
                 /\ call[c].reply = Some([tag |-> "Aborted", val |-> None])) =>
                 last'.tag = "Aborted"]_vars

\* a mass of the transactional adapter has failed behind its first entity
C17_Witness ==
    /\ last.op = "mass"
    /\ last.task = 0
    /\ last.tag = "Store"
    /\ calls = 1
    /\ last.failed > 1
    /\ DOMAIN data # {}

\* Storage::mass has returned Aborted with an entry of the batch written
C17_Aborted ==
    /\ last.op = "mass"
    /\ last.task # 0
    /\ last.tag = "Aborted"
    /\ calls = 1
    /\ DOMAIN db # {}

----------------------------------------------------------------------------
(* Properties of the actor loop *)

\* what a message can come to on a tree, with or without a failing backend
\* call
Possible(msg, tree) == outcomes(msg, tree, FALSE) \cup outcomes(msg, tree, TRUE)

\* the tree that the messages before number i of the log leave when they are
\* executed one after the other
Before(i) == IF i = 1 THEN Empty ELSE log[i - 1].res[1].db

\* the log is an execution of its messages one after the other: but for the
\* one message in the hands of the thread each has come to what the handler
\* makes of it on the tree its predecessor left, the store is the tree the
\* last of them left, and a reply is what its message came to
Serial ==
    /\ \A i \in DOMAIN log :
          \/ /\ log[i].res # None
             /\ log[i].res[1] \in Possible(log[i].msg, Before(i))
          \/ /\ log[i].res = None
             /\ i = Len(log)
             /\ work # None
             /\ work[1].pc = "taken"
             /\ work[1].msg = log[i].msg
    /\ LET done == {i \in DOMAIN log : log[i].res # None}
       IN  db = IF done = {} THEN Empty
                ELSE log[CHOOSE i \in done : \A j \in done : j <= i].res[1].db
    /\ \A c \in Callers :
          call[c].reply # None =>
              \E i \in DOMAIN log :
                  /\ log[i].msg.caller = c
                  /\ \A j \in DOMAIN log : log[j].msg.caller = c => j <= i
                  /\ log[i].res # None
                  /\ call[c].reply[1] = [tag |-> log[i].res[1].tag,
                                         val |-> log[i].res[1].val]

\* C18: the store is read and written by the actor thread only, which has
\* one message in its hands at a time: the store changes only in the step
\* that executes the message taken last, and what the messages of concurrent
\* callers do to the store and answer is what executing them one after the
\* other in the order they were taken does and answers.
C18_Serial ==
    /\ []Serial
    /\ [][db' # db =>
             /\ work # None
             /\ work[1].pc = "taken"
             /\ \E r \in Possible(work[1].msg, db) : db' = r.db]_vars

\* the messages of two callers that were in flight together have both been
\* executed, the second on what the first had written
C18_Witness ==
    /\ Len(log) = 2
    /\ log[1].msg.caller # log[2].msg.caller
    /\ \A c \in Callers : call[c].pc = "wait"
    /\ log[1].msg.op = "insert"
    /\ log[1].res # None
    /\ log[1].res[1].tag = "Ok"
    /\ log[2].msg.op = "delete"
    /\ log[2].res # None
    /\ log[2].res[1].val = Some(log[1].msg.value)
    /\ db = Empty

\* the messages of a caller that are in the channel or in the hands of the
\* thread
Pending(c) ==
    Cardinality({n \in DOMAIN chan : chan[n].caller = c})
        + (IF work # None /\ work[1].msg.caller = c THEN 1 ELSE 0)

\* a caller that waits without a reply has its one message on the way to it,
\* every other caller has none
Once ==
    \A c \in Callers :
        Pending(c) = IF call[c].pc = "wait" /\ call[c].reply = None THEN 1 ELSE 0

\* operations that leave the tree as it is
Reads == {"fetch", "query", "keys"}

\* a fetch that the caller of an insert made behind it, with reads only
\* executed between the two, has found the inserted bytes
Program ==
    \A i \in DOMAIN log, j \in DOMAIN log :
        (/\ i < j
         /\ log[j].res # None
         /\ log[i].msg.caller = log[j].msg.caller
         /\ log[i].msg.op = "insert"
         /\ log[i].res[1].tag = "Ok"
         /\ log[j].msg.op = "fetch"
         /\ log[j].msg.key = log[i].msg.key
         /\ log[j].res[1].tag = "Ok"
         /\ \A m \in DOMAIN log : (i < m /\ m < j) => log[m].msg.op \in Reads) =>
            log[j].res[1].val = Some(log[i].msg.value)

\* what a step can do to the channel, the log and the replies
Queue ==
    /\ chan' # chan =>
          \/ /\ \E c \in Callers :
                   /\ call[c].pc = "idle"
                   /\ call'[c].pc = "wait"
                   /\ Len(chan') = Len(chan) + 1
                   /\ SubSeq(chan', 1, Len(chan)) = chan
                   /\ chan'[Len(chan')].caller = c
             /\ log' = log
          \/ /\ chan # <<>>
             /\ chan' = Tail(chan)
             /\ work = None
             /\ work' # None
             /\ work'[1].msg = Head(chan)
             /\ log' = Append(log, [msg |-> Head(chan), res |-> None])
    /\ log' # log =>
          \/ chan' # chan
          \/ /\ Len(log') = Len(log)
             /\ log[Len(log)].res = None
             /\ log' = [log EXCEPT ![Len(log)].res = log'[Len(log)].res]
    /\ \A c \in Callers :
          (call'[c].reply # call[c].reply /\ call'[c].reply # None) =>
              /\ call[c].reply = None
              /\ work # None
              /\ work[1].msg.caller = c
              /\ work' = None

\* C19: the channel is a queue: a send puts a message behind those that
\* wait, the loop takes the oldest and nothing else leaves or enters the
\* channel, and each message is taken once, executed once and answered once;
\* so a caller that fetches a key behind its own insert of it gets the bytes
\* it inserted.
C19_Fifo ==
    /\ [](Once /\ Program)
    /\ [][Queue]_vars

\* a caller has inserted, awaited the reply, fetched the key and received
\* the bytes it inserted
C19_Witness ==
    /\ Len(log) = 2
    /\ log[1].msg.caller = log[2].msg.caller
    /\ log[1].msg.op = "insert"
    /\ log[2].msg.op = "fetch"
    /\ last.op = "fetch"
    /\ last.task = log[2].msg.caller
    /\ last.tag = "Ok"
    /\ last.val = Some(log[1].msg.value)

\* two messages wait in the channel
C19_Queue ==
    /\ Len(chan) = 2
    /\ work = None

\* the names under which the handler records
Names == {"insert", "fetch", "update", "delete", "query", "mass", "keys"}

\* how far the handler is with the message in its hands: the backend call
\* comes first, the call of record second, and the caller has no reply yet
Stage ==
    work # None =>
        /\ call[work[1].msg.caller].pc = "wait"
        /\ call[work[1].msg.caller].reply = None
        /\ work[1].msg.op \in Names
        /\ work[1].pc \in {"taken", "done", "recorded"}
        /\ work[1].pc = "taken" => (work[1].res = None /\ work[1].rec = None)
        /\ work[1].pc = "done" => (work[1].res # None /\ work[1].rec = None)
        /\ work[1].pc = "recorded" =>
              /\ work[1].res # None
              /\ work[1].res[1] = [tag |-> log[Len(log)].res[1].tag,
                                   val |-> log[Len(log)].res[1].val]
              /\ work[1].rec = Some([name |-> work[1].msg.op,
                                     failed |-> work[1].res[1].tag # "Ok"])

\* what a step can do to the registry and to the replies
Order ==
    /\ registry' # registry =>
          /\ work # None
          /\ work[1].pc = "done"
          /\ work' # None
          /\ work'[1].pc = "recorded"
          /\ lock = "free"
          /\ LET name == work[1].msg.op
                 failed == work[1].res[1].tag # "Ok"
             IN  /\ Failures(registry', name)
                       = Failures(registry, name) + (IF failed THEN 1 ELSE 0)
                 /\ Successes(registry', name)
                       = Successes(registry, name) + (IF failed THEN 0 ELSE 1)
                 /\ \A other \in Names \ {name} :
                       /\ Failures(registry', other) = Failures(registry, other)
                       /\ Successes(registry', other) = Successes(registry, other)
    /\ (work # None /\ work' # work) =>
          \/ work[1].pc = "taken" /\ work' # None /\ work'[1].pc = "done"
                /\ registry' = registry /\ call' = call
          \/ work[1].pc = "done" /\ work' # None /\ work'[1].pc = "recorded"
                /\ db' = db /\ call' = call
          \/ work[1].pc = "recorded" /\ work' = None
                /\ db' = db /\ registry' = registry
                /\ call'[work[1].msg.caller].reply = work[1].res
    /\ \A c \in Callers :
          (call'[c].reply # call[c].reply /\ call'[c].reply # None) =>
              /\ call[c].reply = None
              /\ work # None
              /\ work[1].msg.caller = c
              /\ work[1].pc = "recorded"
              /\ call'[c].reply = work[1].res
              /\ work' = None

\* C20: for each message it takes the handler first makes the backend call,
\* then calls record once with the name of the operation and with failed set
\* exactly when the outcome is an error, then sends that outcome once as the
\* reply; a caller has no reply before the record was made.
C20_Order ==
    /\ []Stage
    /\ [][Order]_vars

\* a caller has received Aborted for its mass, and a failure is counted
\* under mass
C20_Witness ==
    /\ last.op = "mass"
    /\ last.task # 0
    /\ last.tag = "Aborted"
    /\ Failures(registry, "mass") = 1
    /\ Successes(registry, "mass") = 0
    /\ work = None

----------------------------------------------------------------------------
(* Properties of the actor when callers leave or the channel ends *)

\* the actor handles a message whose caller has dropped its future
Orphan(fault) ==
    /\ chan # <<>>
    /\ Head(chan).caller = Gone
    /\ Handle(fault)

\* C21: a message whose caller has dropped its future is executed like any
\* other: the store and the metrics change as the handler makes them change
\* (an insert without a failure is stored, a delete removes the key), no
\* caller gets a reply from it, the state of the actor stays Running and the
\* messages behind it stay in the channel in their order.
C21_Cancelled ==
    [][\A fault \in BOOLEAN :
          Orphan(fault) =>
              LET msg == Head(chan)
              IN  /\ \E r \in outcomes(msg, db, fault) :
                        /\ db' = r.db
                        /\ registry' = record(registry, lock, msg.op, r.tag # "Ok")
                  /\ (msg.op = "insert" /\ ~fault) =>
                        get(db', msg.key) = Some(msg.value)
                  /\ (msg.op = "delete" /\ ~fault) => get(db', msg.key) = None
                  /\ call' = call
                  /\ cell' = "Running"
                  /\ chan' = Tail(chan)
                  /\ link' = link
                  /\ work' = None]_vars

\* the insert of a caller that has left is stored, and the message sent
\* behind it waits for the loop
C21_Witness ==
    /\ last.tag = "Dropped"
    /\ last.op = "insert"
    /\ calls = 2
    /\ db # Empty
    /\ Len(chan) = 1
    /\ chan[1].caller # Gone
    /\ \A c \in Callers : call[c].reply = None

\* on a channel whose receiver is dropped nothing waits and nobody waits
\* without an answer, and each operation of the Handle can return
Unhung ==
    link = "broken" =>
        /\ chan = <<>>
        /\ \A c \in Callers :
              /\ call[c].pc = "wait" => call[c].reply # None
              /\ (call[c].pc = "idle" /\ calls + 1 < MaxCalls) =>
                    \A msg \in Requests(c) : ENABLED Refuse(c, msg)

\* what a call made on such a channel comes to, and what a caller gets whose
\* reply sender was dropped
Closed ==
    /\ (link = "broken" /\ calls' # calls) =>
          /\ last'.tag = "Aborted"
          /\ last'.op \in Names
          /\ chan' = chan
          /\ db' = db
          /\ call' = call
    /\ \A c \in Callers :
          (call[c].pc = "wait" /\ call[c].reply = Some(Lost) /\ Answer(c)) =>
              /\ last'.tag = "Aborted"
              /\ last'.task = c
              /\ last'.op = call[c].op

\* C22: once the actor thread has ended and dropped the receiver, each of the
\* seven operations of the Handle returns Error::Aborted at once, without
\* enqueuing and without waiting; a caller whose message was dropped with
\* the channel, the sender of its reply with it, gets Error::Aborted too.
C22_Aborted ==
    /\ []Unhung
    /\ [][Closed]_vars

\* a mass was refused on the broken channel while another caller still has
\* the lost reply of its call before it
C22_Witness ==
    /\ link = "broken"
    /\ last.tag = "Aborted"
    /\ last.op = "mass"
    /\ \E c \in Callers : call[c].pc = "wait" /\ call[c].reply = Some(Lost)

\* a caller has received Aborted for a fetch that was dropped with the channel
C22_Lost ==
    /\ link = "broken"
    /\ last.tag = "Aborted"
    /\ last.op = "fetch"
    /\ calls = 1
    /\ db = Empty
    /\ \A c \in Callers : call[c].pc = "idle"

\* the actor has received a message: each message handled leaves a sample in
\* the registry while nobody else holds its lock
Received == registry # Empty

\* the steps of the state cell
Turns ==
    cell' # cell =>
        \/ cell = "Idle" /\ cell' = "Running"
        \/ cell = "Running" /\ cell' = "Stopped"

\* C24: the state of the actor is Idle until the actor has received its
\* first message, Running from then on while the channel is open and Stopped
\* only when the channel is closed; it goes from Idle to Running to Stopped
\* and is never Error.
C24_Lifecycle ==
    /\ [](cell \in {"Idle", "Running", "Stopped"})
    /\ [](~Received => cell = "Idle")
    /\ []((Received /\ link = "open") => cell = "Running")
    /\ [](cell = "Stopped" => link = "closed")
    /\ [][Turns]_vars

\* ---------------------------------------------------------------------------
\* The bounded channel when it is full
\* ---------------------------------------------------------------------------

\* sender.send(msg).await on a full channel: the caller is suspended holding
\* its message, nothing enters the channel
Offer(c, msg) ==
    /\ call[c].pc = "idle"
    /\ link = "open"
    /\ Len(chan) >= CAPACITY
    /\ Begin
    /\ call' = [call EXCEPT ![c] =
                   [pc |-> "send", op |-> msg.op, key |-> Some(msg.key),
                    reply |-> None, msg |-> msg]]
    /\ UNCHANGED <<txVars, last, db, chan, cell, registry, lock, work, log>>

\* the suspended send completes once the actor has taken a message out
Enter(c) ==
    /\ call[c].pc = "send"
    /\ link = "open"
    /\ Len(chan) < CAPACITY
    /\ chan' = Append(chan, call[c].msg)
    /\ call' = [call EXCEPT ![c] =
                   [pc |-> "wait", op |-> call[c].op, key |-> call[c].key,
                    reply |-> None]]
    /\ UNCHANGED <<txVars, last, calls, db, cell, registry, lock, work, log>>

\* callers that send, give up and send again against one actor
NextFull ==
    \/ Start
    \/ \E c \in Callers : \E msg \in Requests(c) : Request(c, msg)
    \/ \E c \in Callers : \E msg \in Requests(c) : Offer(c, msg)
    \/ \E c \in Callers : Enter(c)
    \/ \E c \in Callers : Drop(c)
    \/ \E fault \in BOOLEAN : Handle(fault)
    \/ \E c \in Callers : Answer(c)

SpecFull == Init /\ [][NextFull]_vars

\* the changes a step may make to the channel and to a suspended sender
Bounded ==
    /\ \A c \in Callers :
          /\ (call[c].pc = "idle" /\ call'[c].pc = "send")
                => (Len(chan) = CAPACITY /\ chan' = chan)
          /\ (call[c].pc = "send" /\ call'[c].pc = "send")
                => call'[c].msg = call[c].msg
          /\ (call[c].pc = "send" /\ call'[c].pc # "send")
                => /\ Len(chan) < CAPACITY
                   /\ chan' = Append(chan, call[c].msg)
                   /\ call'[c].pc = "wait"
          /\ (call[c].pc = "idle" /\ call'[c].pc = "wait")
                => /\ Len(chan) < CAPACITY
                   /\ Len(chan') = Len(chan) + 1
                   /\ SubSeq(chan', 1, Len(chan)) = chan
    /\ Len(chan') > Len(chan)
          => /\ Len(chan') = Len(chan) + 1
             /\ SubSeq(chan', 1, Len(chan)) = chan
    /\ Len(chan') < Len(chan) => chan' = Tail(chan)
    /\ (Len(chan') = Len(chan) /\ chan' # chan)
          => \A n \in DOMAIN chan :
                 /\ chan'[n].op = chan[n].op
                 /\ chan'[n].key = chan[n].key

\* C23: the channel never holds more than CAPACITY messages; a sender that
\* finds it full is suspended with its message, which is not put in the
\* channel, not lost and not put ahead of others, and enters at the end of
\* the channel only when it has room; every kind of request goes this way.
C23_Backpressure ==
    /\ [](Len(chan) <= CAPACITY)
    /\ [][Bounded]_vars

\* the channel is full and a sender is suspended on it
C23_Witness ==
    /\ Len(chan) = CAPACITY
    /\ \E c \in Callers : call[c].pc = "send"

\* a message offered to a full channel has entered it after the actor took
\* one out
C23_Entered ==
    /\ calls = MaxCalls
    /\ registry # Empty
    /\ Len(chan) = CAPACITY
    /\ \A c \in Callers : call[c].pc = "wait"

\* ---------------------------------------------------------------------------
\* Properties of the actor when the backend fails a call
\* ---------------------------------------------------------------------------

\* the actor handles a message whose backend call fails
Failure == Handle(TRUE)

\* what a failed message leaves behind, but for the registry: an error for
\* its caller, the store as it was, a running actor and the rest of the
\* channel
Survived ==
    /\ call'[Head(chan).caller].reply # None
    /\ call'[Head(chan).caller].reply[1].tag \notin {"Ok", "Lost"}
    /\ db' = db
    /\ cell' = "Running"
    /\ chan' = Tail(chan)

\* a running actor with a message in its channel can handle it
Going ==
    (cell = "Running" /\ chan # <<>> /\ link = "open") => ENABLED Handle(FALSE)

\* the failure is counted, once and for its own name only
Counted ==
    LET name == Head(chan).op
    IN  /\ Failures(registry', name) = Failures(registry, name) + 1
        /\ Successes(registry', name) = Successes(registry, name)
        /\ \A n \in DOMAIN registry : n # name => registry'[n] = registry[n]
        /\ DOMAIN registry' = DOMAIN registry \cup {name}

Fatal ==
    Failure => (Survived /\ Counted)

Mortal ==
    Failure => /\ Survived
               /\ IF lock = "free" THEN Counted ELSE registry' = registry

\* C25 as claimed: when the backend call of a message fails the actor replies
\* an error to its caller, records one failure for the name of the operation,
\* stays Running and goes on with the messages that follow.
C25_NotFatal ==
    /\ []Going
    /\ [][Fatal]_vars

\* C25 as amended: when the backend call of a message fails the actor replies
\* an error to its caller, stays Running and goes on with the messages that
\* follow; it records one failure for the name of the operation when the
\* registry lock is free at that moment, and leaves the registry as it is
\* when the lock is held.
C25_NotFatalRecorded ==
    /\ []Going
    /\ [][Mortal]_vars

\* a failed call was answered and counted, and the actor, still running,
\* has answered another call without a failure since or before
C25_Witness ==
    /\ cell = "Running"
    /\ \E c, d \in Callers :
          /\ call[c].reply # None /\ call[c].reply[1].tag = "Store"
          /\ call[d].reply # None /\ call[d].reply[1].tag = "Ok"
          /\ Failures(registry, call[c].op) = 1

\* a failed call was answered while stats held the registry lock
C25_Dropped ==
    /\ \E c \in Callers : call[c].reply # None /\ call[c].reply[1].tag = "Store"
    /\ lock = "read"
    /\ registry = Empty

\* ---------------------------------------------------------------------------
\* Pool (src/src/pool.rs, the same code as src/crates/bedrock/src/pool.rs)
\* ---------------------------------------------------------------------------

\* Pool::get, let _permit = self.sem.acquire().await: the task goes on when a
\* permit is available and is suspended until then
Acquire(t) ==
    /\ t \notin permit
    /\ taken[t] < MaxHeld
    /\ sem > 0
    /\ sem' = sem - 1
    /\ permit' = permit \cup {t}
    /\ UNCHANGED <<mainVars, taken, handed, cacheVars, metricVars>>

\* Pool::new: the handles that init made, each known by its place
conn == [n \in 1..SIZE |-> n]

\* a get whose permit stays with the checkout it returns
Return_keep(t) ==
    /\ t \in permit
    /\ taken' = [taken EXCEPT ![t] = @ + 1]
    /\ handed' = Some(conn[1])
    /\ permit' = permit \ {t}
    /\ sem' = sem
    /\ UNCHANGED <<mainVars, cacheVars, metricVars>>

\* Pool::get, Ok(self.conn[0].clone()): the caller gets its clone of the
\* first handle, and _permit is dropped as get returns
Return(t) ==
    /\ t \in permit
    /\ taken' = [taken EXCEPT ![t] = @ + 1]
    /\ handed' = Some(conn[1])
    /\ permit' = permit \ {t}
    /\ sem' = sem + 1
    /\ UNCHANGED <<mainVars, cacheVars, metricVars>>

\* the caller drops a checkout: a clone of the handle, nothing of the pool
Release(t) ==
    /\ taken[t] > 0
    /\ taken' = [taken EXCEPT ![t] = @ - 1]
    /\ UNCHANGED <<mainVars, sem, permit, handed, cacheVars, metricVars>>

NextPool ==
    \/ \E t \in Getters : Acquire(t)
    \/ \E t \in Getters : Return(t)
    \/ \E t \in Getters : Release(t)

SpecPool == Init /\ [][NextPool]_vars

RECURSIVE Sum(_, _)
Sum(f, S) ==
    IF S = {} THEN 0
    ELSE LET x == CHOOSE y \in S : TRUE IN f[x] + Sum(f, S \ {x})

\* the checkouts obtained from get and not yet released
Outstanding == Sum(taken, Getters)

\* a get returns a checkout only when fewer than SIZE are outstanding
Gated ==
    \A t \in Getters : taken'[t] > taken[t] => Outstanding < SIZE

\* C26: at most SIZE checkouts obtained from get are outstanding, and while
\* SIZE checkouts are held a further get does not return before one of them
\* is released.
C26_PoolBound ==
    /\ [](Outstanding <= SIZE)
    /\ [][Gated]_vars

\* ---------------------------------------------------------------------------
\* Cache (src/src/cache.rs, the same code as
\* src/crates/kernel/src/storage/cache.rs)
\* ---------------------------------------------------------------------------

\* struct Entry { data, exp }
Entry(v, exp) == [data |-> v, exp |-> exp]

\* a get that still returns an entry at the instant of its expiry
lookup_late(m, k, now) ==
    IF k \in DOMAIN m /\ m[k].exp >= now THEN Some(m[k].data) ELSE None

\* Cache::get under the lock: the data of an entry whose expiry is after now
lookup(m, k, now) ==
    IF k \in DOMAIN m /\ m[k].exp > now THEN Some(m[k].data) ELSE None

\* Cache::get under the lock: map.remove(key) of an entry not returned
evict(m, k, now) ==
    IF k \in DOMAIN m /\ lookup(m, k, now) = None THEN remove(m, k) ELSE m

\* a retain that also keeps the entries that expire at the instant now
retain_late(m, now) == [k \in {x \in DOMAIN m : m[x].exp >= now} |-> m[k]]

\* Cache::clean under the lock: retain(|_, entry| entry.exp > now)
retain(m, now) == [k \in {x \in DOMAIN m : m[x].exp > now} |-> m[k]]

\* time passes
Tick ==
    /\ clock < MaxTime
    /\ clock' = clock + 1
    /\ UNCHANGED <<mainVars, poolVars, metricVars, cache, pend, written, got>>

\* Cache::set up to the await of the lock: exp = Instant::now() + ttl
SetBegin(t, k, v) ==
    /\ pend[t] = None
    /\ pend' = [pend EXCEPT ![t] =
                   Some([op |-> "set", key |-> k, data |-> v, now |-> clock,
                         exp |-> clock + TTL])]
    /\ UNCHANGED <<mainVars, poolVars, metricVars, cache, clock, written, got>>

\* Cache::set with the lock: insert(key, entry)
SetEnd(t) ==
    /\ pend[t] # None
    /\ pend[t][1].op = "set"
    /\ LET p == pend[t][1]
       IN  /\ cache' = put(cache, p.key, Entry(p.data, p.exp))
           /\ written' = [written EXCEPT ![p.key] =
                              Some([data |-> p.data, at |-> p.now])]
    /\ pend' = [pend EXCEPT ![t] = None]
    /\ UNCHANGED <<mainVars, poolVars, metricVars, clock, got>>

\* Cache::get: the lock, the entry compared with Instant::now(), the removal
\* of an entry that is not returned
CacheGet(k) ==
    /\ got' = Some([key |-> k, val |-> lookup(cache, k, clock)])
    /\ cache' = evict(cache, k, clock)
    /\ UNCHANGED <<mainVars, poolVars, metricVars, clock, pend, written>>

\* Cache::del
CacheDel(k) ==
    /\ cache' = remove(cache, k)
    /\ written' = [written EXCEPT ![k] = None]
    /\ UNCHANGED <<mainVars, poolVars, metricVars, clock, pend, got>>

\* Cache::clean up to the await of the lock: now = Instant::now()
CleanBegin(t) ==
    /\ pend[t] = None
    /\ pend' = [pend EXCEPT ![t] = Some([op |-> "clean", now |-> clock])]
    /\ UNCHANGED <<mainVars, poolVars, metricVars, cache, clock, written, got>>

\* Cache::clean with the lock
CleanEnd(t) ==
    /\ pend[t] # None
    /\ pend[t][1].op = "clean"
    /\ cache' = retain(cache, pend[t][1].now)
    /\ pend' = [pend EXCEPT ![t] = None]
    /\ UNCHANGED <<mainVars, poolVars, metricVars, clock, written, got>>

NextCache ==
    \/ Tick
    \/ \E t \in Tasks, k \in Slots, v \in Texts : SetBegin(t, k, v)
    \/ \E t \in Tasks : SetEnd(t)
    \/ \E k \in Slots : CacheGet(k)
    \/ \E k \in Slots : CacheDel(k)
    \/ \E t \in Tasks : CleanBegin(t)
    \/ \E t \in Tasks : CleanEnd(t)

SpecCache == Init /\ [][NextCache]_vars

\* ---------------------------------------------------------------------------
\* Properties of the cache
\* ---------------------------------------------------------------------------

\* what a get of key k returns and leaves in the map, told from the set that
\* reached the map last and the instant that set read
Fresh(k) ==
    LET w == written[k]
        val == got'[1].val
    IN  /\ w = None => (val = None /\ k \notin DOMAIN cache')
        /\ (w # None /\ clock < w[1].at + TTL)
              => (val = Some(w[1].data) /\ cache' = cache)
        /\ (w # None /\ clock >= w[1].at + TTL)
              => (val = None /\ k \notin DOMAIN cache')
        /\ val # None => (k \in DOMAIN cache /\ cache[k].exp > clock)
        /\ \A x \in DOMAIN cache : x # k =>
              (x \in DOMAIN cache' /\ cache'[x] = cache[x])

Lives ==
    \A k \in Slots : CacheGet(k) => Fresh(k)

\* C27: after set(k, v) read the instant t, a get of k before t + TTL, with no
\* later set or del of k, returns Some(v) of the most recent set; a get at or
\* after t + TTL returns None and removes the entry; get never returns a value
\* whose expiry is not after the instant of the get.
C27_CacheTtl == [][Lives]_vars

\* a get at the instant of its expiry found the entry of a set, returned None
\* and removed it
C27_Witness ==
    /\ got # None
    /\ got[1].val = None
    /\ written[got[1].key] # None
    /\ clock = written[got[1].key][1].at + TTL
    /\ got[1].key \notin DOMAIN cache

\* a get one instant before the expiry returned the value of the later of two
\* sets of its key
C27_Hit ==
    /\ got # None
    /\ got[1].val # None
    /\ written[got[1].key] # None
    /\ got[1].val = Some(written[got[1].key][1].data)
    /\ clock + 1 = written[got[1].key][1].at + TTL
    /\ pend = [t \in Tasks |-> None]

\* what the clean of task t leaves in the map: the entries whose expiry is
\* after the instant the clean read, as they were, and no other
Swept(t) ==
    LET now == pend[t][1].now
    IN  /\ DOMAIN cache' \subseteq DOMAIN cache
        /\ \A k \in DOMAIN cache :
              IF cache[k].exp > now
              THEN k \in DOMAIN cache' /\ cache'[k] = cache[k]
              ELSE k \notin DOMAIN cache'

\* what the set of task t leaves in the map: its value under its key, to
\* expire TTL after the instant the set read, and the other entries as they
\* were
Restarted(t) ==
    LET p == pend[t][1]
    IN  /\ DOMAIN cache' = DOMAIN cache \cup {p.key}
        /\ cache'[p.key] = [data |-> p.data, exp |-> p.now + TTL]
        /\ \A k \in DOMAIN cache : k # p.key => cache'[k] = cache[k]

Cleans ==
    \A t \in Tasks :
        /\ CleanEnd(t) => Swept(t)
        /\ SetEnd(t) => Restarted(t)

\* C28: clean removes exactly the entries whose expiry is not after the
\* instant it read, read or not, and keeps every other entry with its value
\* and expiry; set on a key that has an entry replaces the value and makes
\* the expiry the instant it read plus TTL.
C28_Clean == [][Cleans]_vars

\* without any get, a clean has removed the entry of one key and kept the
\* entry of another, which has not expired
C28_Witness ==
    /\ got = None
    /\ \E k, x \in Slots :
          /\ written[k] # None
          /\ k \notin DOMAIN cache
          /\ x \in DOMAIN cache
          /\ cache[x].exp > clock

\* a set has replaced the value of an entry and moved its expiry
C28_Overwritten ==
    \E k \in Slots, t \in Tasks :
        /\ k \in DOMAIN cache
        /\ pend[t] # None
        /\ pend[t][1].op = "set"
        /\ pend[t][1].key = k
        /\ pend[t][1].data # cache[k].data
        /\ pend[t][1].exp > cache[k].exp
        /\ ENABLED SetEnd(t)

\* ---------------------------------------------------------------------------
\* Registry (src/crates/kernel/src/metric.rs) with tasks that call record,
\* get and stats side by side
\* ---------------------------------------------------------------------------

\* an entry that starts from zero whether or not the name is in the map
entry_fresh(map, name) == put(map, name, Metric)

\* map.entry(name).or_insert_with(Metric::new)
entry(map, name) == IF name \in DOMAIN map THEN map ELSE put(map, name, Metric)

\* Metric::stats: no data, or the total, the successes and the failures
metric_stats(m) ==
    IF m.count + m.fail = 0 THEN None
    ELSE Some([total |-> m.count + m.fail, count |-> m.count, fail |-> m.fail])

\* Registry::stats: a line for every name of the map
stats(map) == [n \in DOMAIN map |-> metric_stats(map[n])]

\* a call of record has returned
noted(n, failed, lost) ==
    [tally EXCEPT ![n] =
        [ok |-> @.ok + (IF failed THEN 0 ELSE 1),
         bad |-> @.bad + (IF failed THEN 1 ELSE 0),
         okLost |-> @.okLost + (IF lost /\ ~failed THEN 1 ELSE 0),
         badLost |-> @.badLost + (IF lost /\ failed THEN 1 ELSE 0)]]

\* a record that waits for the lock
RecordTry_wait(t, name, failed) ==
    /\ recording[t] = None
    /\ lock = "free"
    /\ Begin
    /\ lock' = "record"
    /\ registry' = entry(registry, name)
    /\ recording' = [recording EXCEPT ![t] =
                        Some([name |-> name, failed |-> failed, pc |-> "locked"])]
    /\ UNCHANGED <<restVars, tally>>

\* Registry::record, try_write: with the lock the name gets its entry; without
\* it the sample goes to a Metric of its own and the call returns
RecordTry(t, name, failed) ==
    /\ recording[t] = None
    /\ Begin
    /\ IF lock = "free"
       THEN /\ lock' = "record"
            /\ registry' = entry(registry, name)
            /\ recording' = [recording EXCEPT ![t] =
                                Some([name |-> name, failed |-> failed,
                                      pc |-> "locked"])]
            /\ tally' = tally
       ELSE /\ tally' = noted(name, failed, TRUE)
            /\ UNCHANGED <<lock, registry, recording>>
    /\ UNCHANGED restVars

\* Registry::record, drop(map)
RecordDrop(t) ==
    /\ recording[t] # None
    /\ recording[t][1].pc = "locked"
    /\ lock' = "free"
    /\ recording' = [recording EXCEPT ![t] = Some([@[1] EXCEPT !.pc = "dropped"])]
    /\ UNCHANGED <<restVars, calls, registry, tally>>

\* Registry::record, metric.record(start, failed) on the clone of the entry
RecordCount(t) ==
    /\ recording[t] # None
    /\ recording[t][1].pc = "dropped"
    /\ LET r == recording[t][1]
       IN  /\ registry' = [registry EXCEPT ![r.name] = bump(@, r.failed)]
           /\ tally' = noted(r.name, r.failed, FALSE)
    /\ recording' = [recording EXCEPT ![t] = None]
    /\ UNCHANGED <<restVars, calls, lock>>

\* Registry::get: the write lock is taken and the name gets its entry ...
GetBegin(name) ==
    /\ lock = "free"
    /\ lock' = "write"
    /\ registry' = entry(registry, name)
    /\ UNCHANGED <<restVars, calls, metricVars>>

\* ... and the lock is released as get returns
GetEnd ==
    /\ lock = "write"
    /\ lock' = "free"
    /\ UNCHANGED <<restVars, calls, registry, metricVars>>

NextRegistry ==
    \/ \E t \in Tasks, name \in Ops, failed \in BOOLEAN : RecordTry(t, name, failed)
    \/ \E t \in Tasks : RecordDrop(t)
    \/ \E t \in Tasks : RecordCount(t)
    \/ \E name \in Ops : GetBegin(name)
    \/ GetEnd
    \/ StatsBegin
    \/ StatsEnd

SpecRegistry == Init /\ [][NextRegistry]_vars

\* ---------------------------------------------------------------------------
\* Properties of the registry
\* ---------------------------------------------------------------------------

\* no call of record is under way
Quiet == \A t \in Tasks : recording[t] = None

\* the figures stats gives for a name: those of its line, zeros when the map
\* has no line for it or the line says that there is no data
Told(n) ==
    IF n \in DOMAIN stats(registry) /\ stats(registry)[n] # None
    THEN stats(registry)[n][1]
    ELSE [total |-> 0, count |-> 0, fail |-> 0]

Figures(count, fail) == [total |-> count + fail, count |-> count, fail |-> fail]

\* the counters of a name change only as a call of record for that name
\* returns
Own ==
    \A n \in DOMAIN registry :
        registry'[n] # registry[n] =>
            \E t \in Tasks :
                /\ recording[t] # None
                /\ recording[t][1].name = n
                /\ recording'[t] = None

\* stats tells every call of record
Exact ==
    Quiet => \A n \in Ops : Told(n) = Figures(tally[n].ok, tally[n].bad)

\* stats tells the calls of record that found the lock free
Kept ==
    Quiet => \A n \in Ops :
                 Told(n) = Figures(tally[n].ok - tally[n].okLost,
                                   tally[n].bad - tally[n].badLost)

\* C29 as claimed: after N successful and M failed operations of one name
\* were recorded through Registry::record, stats reports N successes, M
\* failures and the total N + M for the name, and a record changes the
\* counters of its own name only.
C29_Exact ==
    /\ []Exact
    /\ [][Own]_vars

\* C29 as amended: after N successful and M failed operations of one name
\* were recorded through Registry::record, stats reports for the name the
\* successes and failures of the calls that found the lock of the map free,
\* which are N and M when no call met a taken lock and fewer otherwise, and
\* their sum as the total; a record changes the counters of its own name only.
C29_Kept ==
    /\ []Kept
    /\ [][Own]_vars

\* three calls of record for one name have returned, two successes and a
\* failure, and one of the successes met a taken lock
C29_Witness ==
    /\ Quiet
    /\ lock = "free"
    /\ \E n \in Ops :
          /\ tally[n].ok = 2 /\ tally[n].okLost = 1
          /\ tally[n].bad = 1 /\ tally[n].badLost = 0
          /\ Told(n) = Figures(1, 1)

\* a call of record can be made and carried on whoever holds the lock
Prompt ==
    \A t \in Tasks :
        /\ (recording[t] = None /\ calls < MaxCalls)
              => \A n \in Ops, failed \in BOOLEAN : ENABLED RecordTry(t, n, failed)
        /\ (recording[t] # None /\ recording[t][1].pc = "locked")
              => ENABLED RecordDrop(t)
        /\ (recording[t] # None /\ recording[t][1].pc = "dropped")
              => ENABLED RecordCount(t)

\* a call of record that finds the lock taken returns in that step and
\* leaves the map and the lock as they are
Thrown ==
    (calls' # calls /\ lock # "free") =>
        \A t \in Tasks, n \in Ops, failed \in BOOLEAN :
            RecordTry(t, n, failed) =>
                /\ registry' = registry
                /\ DOMAIN registry' = DOMAIN registry
                /\ recording'[t] = None
                /\ lock' = lock

\* C30: record never waits, also while a get, a stats or another record
\* holds the lock of the map; in that case the sample goes to a Metric of its
\* own and the counters and the names of the registry stay as they are.
C30_NonBlocking ==
    /\ []Prompt
    /\ [][Thrown]_vars

\* a record has returned without its sample while another record holds the
\* lock
C30_Witness ==
    /\ lock = "record"
    /\ calls = 2
    /\ \E n \in Ops : tally[n].okLost + tally[n].badLost = 1

\* a record has returned without its sample while a get holds the lock
C30_Get ==
    /\ lock = "write"
    /\ calls = 1
    /\ \E n \in Ops : tally[n].okLost + tally[n].badLost = 1

\* a record has returned without its sample while stats holds the lock
C30_Stats ==
    /\ lock = "read"
    /\ calls = 1
    /\ registry = Empty
    /\ \E n \in Ops : tally[n].okLost + tally[n].badLost = 1

\* ---------------------------------------------------------------------------
\* Properties of the write transactions that fail
\* ---------------------------------------------------------------------------

\* a write call that fails tells its cause and leaves both trees alone
Caused ==
    (last'.op \in {"insert", "update", "delete"} /\ last'.tag # "Ok")
        => /\ last'.tag \in {"Missing", "Format", "Store"}
           /\ data' = data
           /\ index' = index

\* the cause told is the one that stopped the transaction
Cause ==
    /\ \A t \in Tasks :
          /\ (upd[t].pc = "read" /\ UpdateCommit(t, TRUE))
                => last'.tag = "Store"
          /\ (upd[t].pc = "read" /\ get(data, upd[t].key[1]) = None
                /\ UpdateCommit(t, FALSE))
                => last'.tag = "Missing"
    /\ \A k \in Keys :
          /\ (last'.op = "delete" /\ Delete(k, TRUE)) => last'.tag = "Store"
          /\ (last'.op = "delete" /\ get(data, k) = None /\ Delete(k, FALSE))
                => last'.tag = "Missing"

Mapped ==
    /\ Caused
    /\ Cause

\* C31: a write transaction of insert, update or delete that is aborted from
\* inside hands the caller its cause, Missing or Format, never the generic
\* Aborted; a failure of the backend comes back as Store; in each case both
\* trees stay as they were.
C31_Cause == [][Mapped]_vars

\* an update has read its entity, the key was deleted, and the write
\* transaction came back with Missing
C31_Witness ==
    /\ last.op = "update"
    /\ last.tag = "Missing"
    /\ last.before # None
    /\ \A k \in last.keys : get(data, k) = None
    /\ index = Empty

\* ---------------------------------------------------------------------------
\* Queries of the actor-backed adapter on a store that holds entries of
\* another type
\* ---------------------------------------------------------------------------

\* Storage::query up to the await of the reply: the Query message is sent,
\* the limit stays with the caller
QuerySend(c, limit) ==
    /\ call[c].pc = "idle"
    /\ link = "open"
    /\ Len(chan) < CAPACITY
    /\ Begin
    /\ chan' = Append(chan, Message("query", <<>>, <<>>, c))
    /\ call' = [call EXCEPT ![c] =
                   [pc |-> "wait", op |-> "query", key |-> None, reply |-> None,
                    limit |-> limit]]
    /\ UNCHANGED <<txVars, last, db, cell, registry, lock, work, log>>

\* Storage::query behind the reply: the loop over the values
QueryReceive(c) ==
    /\ call[c].pc = "wait"
    /\ call[c].op = "query"
    /\ call[c].reply # None
    /\ LET r == storage_query(awaited(call[c].reply[1]), call[c].limit)
       IN  last' = Call("query", c, {}, None, FALSE, r.tag, r.val)
    /\ call' = [call EXCEPT ![c] = Ready]
    /\ UNCHANGED <<txVars, calls, db, chan, cell, registry, lock, work, log>>

\* todos and things written to one store, and queries for the todos
NextMixed ==
    \/ Start
    \/ \E c \in Callers, entity \in Bulk : StorageInsert(c, entity)
    \/ \E c \in Callers, thing \in Things : ThingInsert(c, thing)
    \/ \E c \in Callers, limit \in 0..MaxLimit : QuerySend(c, limit)
    \/ \E fault \in BOOLEAN : Handle(fault)
    \/ \E c \in Callers : call[c].op # "query" /\ Receive(c)
    \/ \E c \in Callers : QueryReceive(c)

SpecMixed == Init /\ [][NextMixed]_vars

\* the values of a reply that are todos, as summaries, in the order of the
\* reply
Sound(raw) ==
    LET Entity(bytes) == deserialize(bytes).tag = "Ok"
        kept == SelectSeq(raw, Entity)
    IN  [n \in DOMAIN kept |-> summary(deserialize(kept[n]).val[1])]

\* a query answered without a failure yields the first `limit` todos of the
\* reply
Skipped ==
    \A c \in Callers :
        (/\ call[c].pc = "wait"
         /\ call[c].op = "query"
         /\ call'[c].pc = "idle"
         /\ call[c].reply[1].tag = "Ok") =>
            /\ last'.tag = "Ok"
            /\ last'.val = Some(take(Sound(call[c].reply[1].val[1]),
                                      call[c].limit))

\* C32: a stored entry that cannot be deserialized does not fail a query of
\* the actor-backed adapter: it is skipped, and the query yields the
\* well-formed entries around it, the first `limit` of them.
C32_Skip == [][Skipped]_vars

\* ---------------------------------------------------------------------------
\* Properties of delete at the Handle and on the actor-backed adapter
\* ---------------------------------------------------------------------------

\* the actor handles, without a backend failure, a Delete of a key not stored
DeleteOfMissing ==
    /\ Handle(FALSE)
    /\ Head(chan).op = "delete"
    /\ get(db, Head(chan).key) = None

\* the reply to it is Ok with an empty vector and the store stays as it is
Harmless ==
    /\ call'[Head(chan).caller].reply = Some([tag |-> "Ok", val |-> Some(<<>>)])
    /\ db' = db
    /\ Failures(registry', "delete") = Failures(registry, "delete")

Tolerant ==
    DeleteOfMissing =>
        /\ Harmless
        /\ Successes(registry', "delete") = Successes(registry, "delete") + 1

Lenient ==
    DeleteOfMissing =>
        /\ Harmless
        /\ IF lock = "free"
           THEN /\ Successes(registry', "delete") =
                       Successes(registry, "delete") + 1
                /\ \A n \in DOMAIN registry :
                      n # "delete" => registry'[n] = registry[n]
           ELSE registry' = registry

\* C33 as claimed: at the Handle a delete of a key that is not stored is no
\* error: the reply is Ok with an empty vector, the registry counts one more
\* successful delete, and the store stays as it is.
C33_DeleteMissing == [][Tolerant]_vars

\* C33 as amended: at the Handle a delete of a key that is not stored is no
\* error: the reply is Ok with an empty vector and the store stays as it is;
\* the actor records it with failed = false, so the registry counts one more
\* successful delete when its lock is free at that moment and stays as it is
\* when the lock is held, and its failure count does not grow.
C33_DeleteMissingRecorded == [][Lenient]_vars

\* a delete of a key that is not stored was answered and counted, on a store
\* that holds another key
C33_Witness ==
    /\ \E c \in Callers :
          /\ call[c].op = "delete"
          /\ call[c].reply = Some([tag |-> "Ok", val |-> Some(<<>>)])
    /\ Successes(registry, "delete") = 1
    /\ DOMAIN db # {}

\* what Storage::delete returns and leaves behind: Missing for a key that was
\* not stored, the removed entity for one that was, and no entry at the key
Removed ==
    /\ \A c \in Callers :
          (/\ call[c].pc = "wait"
           /\ call[c].op = "delete"
           /\ call[c].reply # None
           /\ call'[c].pc = "idle"
           /\ call[c].reply[1].tag = "Ok") =>
              IF call[c].reply[1].val = Some(<<>>)
              THEN last'.tag = "Missing"
              ELSE /\ last'.tag = "Ok"
                   /\ last'.val = deserialize(call[c].reply[1].val[1]).val
    /\ (Handle(FALSE) /\ Head(chan).op = "delete")
          => get(db', Head(chan).key) = None

\* C34: on the actor-backed adapter Storage::delete of a key that is not
\* stored returns Missing, and of a stored key returns the removed entity,
\* after which a fetch of the key finds nothing.
C34_Delete == [][Removed]_vars

\* ---------------------------------------------------------------------------
\* Properties of update on the transactional adapter
\* ---------------------------------------------------------------------------

\* the write transaction of an update whose transform kept the index key
\* leaves the index tree as it is and rewrites the data entry of its key only
Still ==
    \A t \in Tasks :
        (/\ upd[t].pc = "read"
         /\ upd'[t].pc = "idle"
         /\ last'.tag = "Ok"
         /\ idx(upd[t].before[1]) = idx(upd[t].after[1])) =>
            /\ index' = index
            /\ DOMAIN data' = DOMAIN data
            /\ data'[upd[t].key[1]] = serialize(upd[t].after[1])
            /\ \A x \in DOMAIN data : x # upd[t].key[1] => data'[x] = data[x]

\* C35: an update on the transactional adapter whose transform leaves the
\* index key unchanged writes nothing to the index tree, which is the same
\* before and after, and rewrites only the data entry of its key.
C35_NoChurn == [][Still]_vars

\* an update that changed the text and kept the index key has committed, and
\* the index tree holds an entry
C35_Witness ==
    /\ last.op = "update"
    /\ last.tag = "Ok"
    /\ last.before # None
    /\ last.val # last.before
    /\ idx(last.val[1]) = idx(last.before[1])
    /\ index # Empty

\* the write transaction of an update whose key is gone writes nothing, and
\* comes back with Missing unless the backend fails it
Guarded ==
    \A t \in Tasks :
        (/\ upd[t].pc = "read"
         /\ upd'[t].pc = "idle"
         /\ get(data, upd[t].key[1]) = None) =>
            /\ data' = data
            /\ index' = index
            /\ get(data', upd[t].key[1]) = None
            /\ last'.op = "update"
            /\ last'.tag \in {"Missing", "Store"}
            /\ UpdateCommit(t, FALSE) => last'.tag = "Missing"

\* C36: on the transactional adapter an update writes nothing for a key that
\* is absent when its write transaction runs: after a delete of the key
\* between its read and its write the update returns Missing, neither tree
\* changes and the key stays absent.
C36_NoRevive == [][Guarded]_vars

\* after an insert, the read of an update and a delete of the key, the write
\* transaction of the update came back with Missing and both trees are empty
C36_Witness ==
    /\ calls = 3
    /\ last.op = "update"
    /\ last.tag = "Missing"
    /\ last.stale
    /\ data = Empty
    /\ index = Empty

\* ---------------------------------------------------------------------------
\* Storage::update of the actor-backed adapter
\* (src/crates/kernel/src/storage/sled.rs): a fetch, then an Update message
\* ---------------------------------------------------------------------------

\* Storage::update up to the await of the fetch
UpdateFetch(c, k, patch) ==
    /\ call[c].pc = "idle"
    /\ link = "open"
    /\ Len(chan) < CAPACITY
    /\ Begin
    /\ chan' = Append(chan, storage_fetch(k, c))
    /\ call' = [call EXCEPT ![c] =
                   [pc |-> "wait", op |-> "old", key |-> Some(k), reply |-> None,
                    patch |-> patch]]
    /\ UNCHANGED <<txVars, last, db, cell, registry, lock, work, log>>

\* Storage::update from the reply of the fetch to the await of the update:
\* errors and Missing end the call, an entity is transformed and sent
UpdateSend(c) ==
    /\ call[c].pc = "wait"
    /\ call[c].op = "old"
    /\ call[c].reply # None
    /\ LET k == call[c].key[1]
           old == storage_result("fetch", awaited(call[c].reply[1]))
       IN  IF old.tag # "Ok" \/ old.val = None
           THEN /\ last' = Call("update", c, {k}, None, FALSE,
                                IF old.tag # "Ok" THEN old.tag ELSE "Missing",
                                None)
                /\ call' = [call EXCEPT ![c] = Ready]
                /\ chan' = chan
           ELSE /\ link = "open"
                /\ Len(chan) < CAPACITY
                /\ chan' = Append(chan,
                                  Message("update", encode(k),
                                          serialize(change(call[c].patch,
                                                           old.val[1])), c))
                /\ call' = [call EXCEPT ![c] =
                               [pc |-> "wait", op |-> "update", key |-> Some(k),
                                reply |-> None]]
                /\ last' = last
    /\ UNCHANGED <<txVars, calls, db, cell, registry, lock, work, log>>

\* Storage::update behind the reply of the update
UpdateReceive(c) ==
    /\ call[c].pc = "wait"
    /\ call[c].op = "update"
    /\ call[c].reply # None
    /\ LET reply == awaited(call[c].reply[1])
           r == IF reply.tag # "Ok" THEN [tag |-> reply.tag, val |-> None]
                ELSE deserialize(reply.val[1])
       IN  last' = Call("update", c, {call[c].key[1]}, None, FALSE, r.tag, r.val)
    /\ call' = [call EXCEPT ![c] = Ready]
    /\ UNCHANGED <<txVars, calls, db, chan, cell, registry, lock, work, log>>

\* inserts, deletes and updates of several callers on one store
NextRevive ==
    \/ Start
    \/ \E c \in Callers, entity \in Bulk : StorageInsert(c, entity)
    \/ \E c \in Callers, k \in Keys : StorageDelete(c, k)
    \/ \E c \in Callers, k \in Keys, patch \in Patches :
          patch.text = None /\ UpdateFetch(c, k, patch)
    \/ \E c \in Callers : UpdateSend(c)
    \/ \E c \in Callers : UpdateReceive(c)
    \/ \E fault \in BOOLEAN : Handle(fault)
    \/ \E c \in Callers : call[c].op \in {"insert", "delete"} /\ Receive(c)

SpecRevive == Init /\ [][NextRevive]_vars

\* the Update message of an update whose key was deleted behind its fetch is
\* answered with Missing and leaves the key absent
Absent ==
    (/\ Handle(FALSE)
     /\ Head(chan).op = "update"
     /\ get(db, Head(chan).key) = None) =>
        /\ call'[Head(chan).caller].reply # None
        /\ call'[Head(chan).caller].reply[1].tag = "Missing"
        /\ get(db', Head(chan).key) = None

\* C37: on the actor-backed adapter an update does not bring back a deleted
\* key: when a Delete of the key is handled between the Fetch and the Update
\* message of the update, the update fails with Missing and the key stays
\* absent.
C37_NoRevive == [][Absent]_vars

\* ---------------------------------------------------------------------------
\* Properties of the permits of the pool
\* ---------------------------------------------------------------------------

\* Pool::free: the permits that are available
free == sem

\* with no get under way every permit is available, and what a get returned
\* is the first handle
Returned ==
    /\ permit = {} => free = SIZE
    /\ free + Cardinality(permit) = SIZE
    /\ handed # None => handed = Some(conn[1])

\* C38: a permit acquired by get is released before get returns: whenever no
\* get is under way free() is the size of the pool, however many handles
\* callers still hold, and get always returns a clone of the first handle.
C38_Free == []Returned

\* no get is under way, callers hold more handles than the pool has permits,
\* and every permit is available
C38_Witness ==
    /\ permit = {}
    /\ Outstanding > SIZE
    /\ free = SIZE
    /\ handed = Some(conn[1])

\* ---------------------------------------------------------------------------
\* Properties of the cursor of query on the transactional adapter
\* ---------------------------------------------------------------------------

\* the keys of the range of a prefix that lie behind a cursor, in their
\* order
Behind(i, prefix, cursor) ==
    LET all == IF upper(prefix) = <<>> THEN iter(i)
               ELSE range(i, prefix, upper(prefix))
        Later(k) == less(cursor, k)
    IN  SelectSeq(all, Later)

\* a query with a cursor yields the first `limit` entries behind the cursor
Resumed ==
    (Queried /\ last'.query.after # None) =>
        LET q == last'.query
            keys == take(Behind(index, q.prefix, q.after[1]), q.limit)
        IN  /\ last'.tag = "Ok"
            /\ last'.val = Some(Summaries(index, keys))

\* C39: on the transactional adapter a query with a cursor yields the first
\* `limit` entries of the range of the prefix whose index key is greater
\* than the cursor, also when the range holds no entry with the key of the
\* cursor any more.
C39_Cursor == [][Resumed]_vars

\* ---------------------------------------------------------------------------
\* The end of the actor: the channel is drained before the loop stops
\* ---------------------------------------------------------------------------

\* callers that enqueue, give up, take their replies and drop their Handles,
\* in front of an actor thread that runs to its end
NextDrain ==
    \/ Start
    \/ \E c \in Callers : \E msg \in Requests(c) :
          calls + 1 < MaxCalls /\ Request(c, msg)
    \/ \E c \in Callers : Drop(c)
    \/ \E fault \in BOOLEAN : Handle(fault)
    \/ \E c \in Callers : Answer(c)
    \/ Close
    \/ Stop

\* the actor thread is a thread of its own that does nothing but its loop:
\* it starts, it takes the next message whenever there is one, and it leaves
\* the loop when blocking_recv returns None
SpecDrain ==
    /\ Init
    /\ [][NextDrain]_vars
    /\ WF_vars(Start)
    /\ WF_vars(\E fault \in BOOLEAN : Handle(fault))
    /\ WF_vars(Stop)

\* the messages the actor has executed: each one leaves a sample in the
\* registry, whose lock nobody else takes here
Executed ==
    Sum([n \in DOMAIN registry |-> registry[n].count + registry[n].fail],
        DOMAIN registry)

\* every message enqueued is in the channel or executed
Accounted == Executed + Len(chan) = calls

\* Stopped is set behind the closed and empty channel, nothing left over
Drained ==
    cell = "Stopped" => (link = "closed" /\ chan = <<>> /\ Executed = calls)

\* the reply of a message taken from the channel is sent in the same step,
\* to the caller that still awaits it
Replied ==
    \A c \in Callers :
        (/\ call[c].pc = "wait"
         /\ call[c].reply = None
         /\ chan # <<>>
         /\ Head(chan).caller = c
         /\ chan' = Tail(chan)) => call'[c].reply # None

\* C40: every message that was enqueued is in time executed by the actor and
\* its reply sent, also when every Handle is dropped right after the enqueue;
\* the actor sets Stopped only when the channel is empty and every sender is
\* dropped, so that no enqueued operation is lost at the end.
C40_Drain ==
    /\ []Accounted
    /\ []Drained
    /\ [][Replied]_vars
    /\ \A n \in 0..MaxCalls : (calls = n) ~> (Executed >= n)
    /\ \A c \in Callers :
          (call[c].pc = "wait") ~> (call[c].pc = "idle" \/ call[c].reply # None)
    /\ (link = "closed") ~> (cell = "Stopped")

\* the actor has stopped behind two messages whose callers gave up and
\* dropped their Handles: both were executed, one of them wrote to the store
C40_Witness ==
    /\ cell = "Stopped"
    /\ calls >= 2
    /\ Executed = calls
    /\ last.tag = "Dropped"
    /\ db # Empty

\* the Handles are dropped while a message waits in the channel
C40_Pending ==
    /\ link = "closed"
    /\ cell = "Running"
    /\ chan # <<>>
    /\ \A n \in DOMAIN chan : chan[n].caller = Gone

====
